---- MODULE Spec2Model ----
(***************************************************************************)
(* Nz::ForwardRenderQueue (src/src/Nazara/Graphics/ForwardRenderQueue.cpp) *)
(* as a state machine.                                                     *)
(*                                                                         *)
(* Pointers are identities (positive integers, Null = 0) and are compared  *)
(* as the code compares them.  Positions are taken along the view axis     *)
(* (one coordinate), a transform matrix is its translation, and floats are *)
(* small integers: the claims checked here are about the structure of the  *)
(* queue, not about rounding.                                              *)
(*                                                                         *)
(* Every handler is a pure operator from the registry (`layers`) to the    *)
(* registry, named as in the source; the actions apply them.               *)
(*                                                                         *)
(* Nz::SimpleTextDrawer (src/src/Nazara/Utility/SimpleTextDrawer.cpp)      *)
(* follows the queue, in the same way, on the variable `drawer`.           *)
(***************************************************************************)
EXTENDS Integers, Sequences, FiniteSets, Bags, TLC

VARIABLES
    layers,   \* ForwardRenderQueue::layers : std::map<int, Layer>
    op,       \* history: the last call made on the queue, its arguments and what it found
    idle,     \* history: per layer key, Clear(false) calls gone through since the last submission to it
    base,     \* history: the registry at the start of the current AddMesh batch
    calls,    \* history: the bag of opaque AddMesh calls made since `base`
    drawer    \* a SimpleTextDrawer (src/src/Nazara/Utility/SimpleTextDrawer.cpp): its members

vars == <<layers, op, idle, base, calls, drawer>>

Null == 0

\* The drawer of a run that constructs no SimpleTextDrawer.
NoDrawer == <<>>

EmptyMap == [x \in {} |-> x]

Range(s) == {s[i] : i \in DOMAIN s}

Last(s) == s[Len(s)]

Front(s) == SubSeq(s, 1, Len(s) - 1)

(***************************************************************************)
(* Program constants.                                                      *)
(***************************************************************************)
\* The minimum instance count for instancing (Graphics/Config.hpp).
NAZARA_GRAPHICS_INSTANCING_MIN_INSTANCES_COUNT == 10

\* The idle-clear count Clear(false) compares clearCount with.
ClearCountLimit == 100

\* NAZARA_GRAPHICS_SAFE: the build checks AddDrawable's argument.
NAZARA_GRAPHICS_SAFE == TRUE

(***************************************************************************)
(* The resources the queue is handed.  They are owned elsewhere; the model *)
(* fixes a small population with the properties the code reads.            *)
(***************************************************************************)
\* Material handles: 1 and 2 are opaque, 3 is alpha-blended; 2 asks for
\* billboard depth sorting.
Materials == {1, 2, 3}

\* material->IsEnabled(RendererParameter_Blend)
IsBlendEnabled(material) == material = 3

\* material->IsDepthSortingEnabled()
IsDepthSortingEnabled(material) == material = 2

\* material->GetShader(): the uber shader's identity.
GetShader(material) == CASE material = 1 -> 2
                         [] material = 2 -> 1
                         [] OTHER        -> 1

\* material->GetShaderInstance(flags)->GetShader(): the shader instance's
\* identity for the default flags, and for the billboard flags.
GetShaderInstance(material, billboard) ==
    IF billboard THEN 10 + GetShader(material) ELSE GetShader(material)

\* material->GetDiffuseMap()
GetDiffuseMap(material) == CASE material = 3 -> 1
                             [] OTHER        -> Null

\* indexBuffer->GetBuffer(): index buffers 1 and 2 are two ranges of the same
\* Buffer, index buffer 3 has a Buffer of its own.
IndexBufferGetBuffer(indexBuffer) == CASE indexBuffer = 1 -> 1
                                       [] indexBuffer = 2 -> 1
                                       [] OTHER           -> indexBuffer

\* vertexBuffer->GetBuffer()
VertexBufferGetBuffer(vertexBuffer) == 10 + vertexBuffer

\* MeshData {primitiveMode, vertexBuffer, indexBuffer}
MeshData(indexBuffer, vertexBuffer, primitiveMode) ==
    [indexBuffer |-> indexBuffer, vertexBuffer |-> vertexBuffer, primitiveMode |-> primitiveMode]

\* Boxf, by what AddMesh reads of it: GetCenter() and GetSquaredRadius().
Box(center, squaredRadius) == [center |-> center, squaredRadius |-> squaredRadius]

(***************************************************************************)
(* The comparators of the batch maps.                                      *)
(***************************************************************************)
BatchedBillboardComparator(mat1, mat2) ==
    IF GetShader(mat1) # GetShader(mat2)
    THEN GetShader(mat1) < GetShader(mat2)
    ELSE IF GetShaderInstance(mat1, TRUE) # GetShaderInstance(mat2, TRUE)
    THEN GetShaderInstance(mat1, TRUE) < GetShaderInstance(mat2, TRUE)
    ELSE IF GetDiffuseMap(mat1) # GetDiffuseMap(mat2)
    THEN GetDiffuseMap(mat1) < GetDiffuseMap(mat2)
    ELSE mat1 < mat2

BatchedModelMaterialComparator(mat1, mat2) ==
    IF GetShader(mat1) # GetShader(mat2)
    THEN GetShader(mat1) < GetShader(mat2)
    ELSE IF GetShaderInstance(mat1, FALSE) # GetShaderInstance(mat2, FALSE)
    THEN GetShaderInstance(mat1, FALSE) < GetShaderInstance(mat2, FALSE)
    ELSE IF GetDiffuseMap(mat1) # GetDiffuseMap(mat2)
    THEN GetDiffuseMap(mat1) < GetDiffuseMap(mat2)
    ELSE mat1 < mat2

\* BatchedSpriteMaterialComparator without its last comparison, that of the
\* handles themselves.
BatchedSpriteMaterialComparatorNoHandle(mat1, mat2) ==
    IF GetShader(mat1) # GetShader(mat2)
    THEN GetShader(mat1) < GetShader(mat2)
    ELSE IF GetShaderInstance(mat1, FALSE) # GetShaderInstance(mat2, FALSE)
    THEN GetShaderInstance(mat1, FALSE) < GetShaderInstance(mat2, FALSE)
    ELSE GetDiffuseMap(mat1) < GetDiffuseMap(mat2)

BatchedSpriteMaterialComparator(mat1, mat2) ==
    IF GetShader(mat1) # GetShader(mat2)
    THEN GetShader(mat1) < GetShader(mat2)
    ELSE IF GetShaderInstance(mat1, FALSE) # GetShaderInstance(mat2, FALSE)
    THEN GetShaderInstance(mat1, FALSE) < GetShaderInstance(mat2, FALSE)
    ELSE IF GetDiffuseMap(mat1) # GetDiffuseMap(mat2)
    THEN GetDiffuseMap(mat1) < GetDiffuseMap(mat2)
    ELSE mat1 < mat2

MeshDataComparator(data1, data2) ==
    LET ibuffer1 == IF data1.indexBuffer # Null THEN IndexBufferGetBuffer(data1.indexBuffer) ELSE Null
        ibuffer2 == IF data2.indexBuffer # Null THEN IndexBufferGetBuffer(data2.indexBuffer) ELSE Null
        vbuffer1 == VertexBufferGetBuffer(data1.vertexBuffer)
        vbuffer2 == VertexBufferGetBuffer(data2.vertexBuffer)
    IN  IF ibuffer1 # ibuffer2 THEN ibuffer1 < ibuffer2
        ELSE IF vbuffer1 # vbuffer2 THEN vbuffer1 < vbuffer2
        ELSE data1.primitiveMode < data2.primitiveMode

\* The overlay map of a sprite batch is ordered by std::less<const Texture*>.
TextureLess(tex1, tex2) == tex1 < tex2

(***************************************************************************)
(* std::map, as a function from its keys: find, insert and erase go        *)
(* through the map's comparator, two keys being the same key when neither  *)
(* is less than the other.                                                 *)
(***************************************************************************)
MapFind(map, key, Less(_, _)) ==
    {k \in DOMAIN map : ~Less(k, key) /\ ~Less(key, k)}

MapPut(map, key, value) ==
    [k \in DOMAIN map \cup {key} |-> IF k = key THEN value ELSE map[k]]

MapErase(map, key, Less(_, _)) ==
    [k \in DOMAIN map \ MapFind(map, key, Less) |-> map[k]]

(***************************************************************************)
(* Layer and its entries, as declared in ForwardRenderQueue.hpp.  A slot   *)
(* (NazaraSlot) is a member of its entry: it holds the resource whose      *)
(* release signal it is connected to, Null when it is not connected, and   *)
(* it goes when its entry goes.                                            *)
(***************************************************************************)
NewLayer ==
    [clearCount           |-> 0,
     opaqueModels         |-> EmptyMap,
     transparentModels    |-> <<>>,
     transparentModelData |-> <<>>,
     basicSprites         |-> EmptyMap,
     billboards           |-> EmptyMap,
     otherDrawables       |-> <<>>]

NewBatchedModelEntry(material) ==
    [materialReleaseSlot |-> material,
     meshMap             |-> EmptyMap,
     enabled             |-> FALSE,
     instancingEnabled   |-> FALSE]

\* A MeshInstanceEntry whose index buffer slot is left unconnected.
NewMeshInstanceEntryNoIndexSlot(meshData, meshAABB) ==
    [instances               |-> <<>>,
     squaredBoundingSphere   |-> [pos |-> meshAABB.center, radius |-> meshAABB.squaredRadius],
     indexBufferReleaseSlot  |-> Null,
     vertexBufferReleaseSlot |-> meshData.vertexBuffer]

NewMeshInstanceEntry(meshData, meshAABB) ==
    [instances               |-> <<>>,
     squaredBoundingSphere   |-> [pos |-> meshAABB.center, radius |-> meshAABB.squaredRadius],
     indexBufferReleaseSlot  |-> meshData.indexBuffer,
     vertexBufferReleaseSlot |-> meshData.vertexBuffer]

NewBatchedBasicSpriteEntry(material) ==
    [materialReleaseSlot |-> material,
     overlayMap          |-> EmptyMap,
     enabled             |-> FALSE]

NewBatchedSpriteEntry(overlay) ==
    [textureReleaseSlot |-> overlay,
     spriteChains       |-> <<>>]

NewBatchedBillboardEntry(material) ==
    [materialReleaseSlot |-> material,
     billboards          |-> <<>>]

BillboardData(color, center, size, sinCos) ==
    [color |-> color, center |-> center, size |-> size, sinCos |-> sinCos]

(***************************************************************************)
(* NazaraAssert(condition, error) (Core/Error.hpp): the call goes on when  *)
(* the condition holds; when it does not, the assertion failure is         *)
(* triggered and the call ends there.                                      *)
(***************************************************************************)
NazaraAssert(condition) == condition

(***************************************************************************)
(* ForwardRenderQueue::GetLayer                                            *)
(***************************************************************************)
\* GetLayer that assigns a new Layer to the key whether or not it has one.
GetLayerAssignsNew(L, i) == MapPut(L, i, NewLayer)

\* GetLayer that starts a layer it creates as a copy of another layer.
GetLayerCopiesFirst(L, i) ==
    LET L1 == IF i \in DOMAIN L THEN L
              ELSE IF DOMAIN L = {} THEN MapPut(L, i, NewLayer)
              ELSE MapPut(L, i, L[CHOOSE j \in DOMAIN L : \A k \in DOMAIN L : j <= k])
    IN  [L1 EXCEPT ![i].clearCount = 0]

\* GetLayer that sets the count of a layer it creates only.
GetLayerNoReset(L, i) ==
    IF i \in DOMAIN L THEN L ELSE MapPut(L, i, NewLayer)

GetLayer(L, i) ==
    LET L1 == IF i \in DOMAIN L THEN L ELSE MapPut(L, i, NewLayer)
    IN  [L1 EXCEPT ![i].clearCount = 0]

(***************************************************************************)
(* ForwardRenderQueue::AddMesh                                             *)
(***************************************************************************)
\* The test with > in place of >=.
InstancingReachedLate(instances) ==
    Len(instances) > NAZARA_GRAPHICS_INSTANCING_MIN_INSTANCES_COUNT

\* The instancing test that follows the push_back of the instance.
InstancingReached(instances) ==
    Len(instances) >= NAZARA_GRAPHICS_INSTANCING_MIN_INSTANCES_COUNT

\* The blend branch that batches: a (material, mesh) pair already in the
\* transparent data gets no second record.
AddTransparentMeshBatched(L, renderOrder, material, meshData, meshAABB, transformMatrix) ==
    LET L1    == GetLayer(L, renderOrder)
        index == Len(L1[renderOrder].transparentModelData)
        data  == [material              |-> material,
                  meshData              |-> meshData,
                  squaredBoundingSphere |-> [pos    |-> transformMatrix + meshAABB.center,
                                             radius |-> meshAABB.squaredRadius],
                  transformMatrix       |-> transformMatrix]
    IN  IF \E j \in 1..index : /\ L1[renderOrder].transparentModelData[j].material = material
                               /\ L1[renderOrder].transparentModelData[j].meshData = meshData
        THEN L1
        ELSE [L1 EXCEPT ![renderOrder].transparentModelData = Append(@, data),
                        ![renderOrder].transparentModels = Append(@, index)]

\* The blend branch that takes the index after the record is appended.
AddTransparentMeshIndexAfter(L, renderOrder, material, meshData, meshAABB, transformMatrix) ==
    LET L1    == GetLayer(L, renderOrder)
        index == Len(L1[renderOrder].transparentModelData) + 1
        data  == [material              |-> material,
                  meshData              |-> meshData,
                  squaredBoundingSphere |-> [pos    |-> transformMatrix + meshAABB.center,
                                             radius |-> meshAABB.squaredRadius],
                  transformMatrix       |-> transformMatrix]
    IN  [L1 EXCEPT ![renderOrder].transparentModelData = Append(@, data),
                   ![renderOrder].transparentModels = Append(@, index)]

AddTransparentMesh(L, renderOrder, material, meshData, meshAABB, transformMatrix) ==
    LET L1    == GetLayer(L, renderOrder)
        index == Len(L1[renderOrder].transparentModelData)
        data  == [material              |-> material,
                  meshData              |-> meshData,
                  squaredBoundingSphere |-> [pos    |-> transformMatrix + meshAABB.center,
                                             radius |-> meshAABB.squaredRadius],
                  transformMatrix       |-> transformMatrix]
    IN  [L1 EXCEPT ![renderOrder].transparentModelData = Append(@, data),
                   ![renderOrder].transparentModels = Append(@, index)]

\* AddMesh with the flag assigned from the test on every call.
AddOpaqueMeshFlagFollows(L, renderOrder, material, meshData, meshAABB, transformMatrix) ==
    LET L1           == GetLayer(L, renderOrder)
        opaqueModels == L1[renderOrder].opaqueModels
        it           == MapFind(opaqueModels, material, BatchedModelMaterialComparator)
        matKey       == IF it = {} THEN material ELSE CHOOSE k \in it : TRUE
        entry        == IF it = {} THEN NewBatchedModelEntry(material) ELSE opaqueModels[matKey]
        meshMap      == entry.meshMap
        it2          == MapFind(meshMap, meshData, MeshDataComparator)
        meshKey      == IF it2 = {} THEN meshData ELSE CHOOSE k \in it2 : TRUE
        instanceEntry == IF it2 = {} THEN NewMeshInstanceEntry(meshData, meshAABB) ELSE meshMap[meshKey]
        instances    == Append(instanceEntry.instances, transformMatrix)
        entry2       == [entry EXCEPT !.enabled = TRUE,
                                      !.meshMap = MapPut(meshMap, meshKey, [instanceEntry EXCEPT !.instances = instances]),
                                      !.instancingEnabled = InstancingReached(instances)]
    IN  [L1 EXCEPT ![renderOrder].opaqueModels = MapPut(opaqueModels, matKey, entry2)]

AddOpaqueMesh(L, renderOrder, material, meshData, meshAABB, transformMatrix) ==
    LET L1           == GetLayer(L, renderOrder)
        opaqueModels == L1[renderOrder].opaqueModels
        it           == MapFind(opaqueModels, material, BatchedModelMaterialComparator)
        matKey       == IF it = {} THEN material ELSE CHOOSE k \in it : TRUE
        entry        == IF it = {} THEN NewBatchedModelEntry(material) ELSE opaqueModels[matKey]
        meshMap      == entry.meshMap
        it2          == MapFind(meshMap, meshData, MeshDataComparator)
        meshKey      == IF it2 = {} THEN meshData ELSE CHOOSE k \in it2 : TRUE
        instanceEntry == IF it2 = {} THEN NewMeshInstanceEntry(meshData, meshAABB) ELSE meshMap[meshKey]
        instances    == Append(instanceEntry.instances, transformMatrix)
        entry2       == [entry EXCEPT !.enabled = TRUE,
                                      !.meshMap = MapPut(meshMap, meshKey, [instanceEntry EXCEPT !.instances = instances]),
                                      !.instancingEnabled = IF InstancingReached(instances) THEN TRUE ELSE @]
    IN  [L1 EXCEPT ![renderOrder].opaqueModels = MapPut(opaqueModels, matKey, entry2)]

AddMesh(L, renderOrder, material, meshData, meshAABB, transformMatrix) ==
    IF ~NazaraAssert(material # Null) THEN L
    ELSE IF IsBlendEnabled(material)
    THEN AddTransparentMesh(L, renderOrder, material, meshData, meshAABB, transformMatrix)
    ELSE AddOpaqueMesh(L, renderOrder, material, meshData, meshAABB, transformMatrix)

(***************************************************************************)
(* ForwardRenderQueue::AddSprites                                          *)
(***************************************************************************)
\* AddSprites that starts the overlay's bucket anew at every call.
AddSpritesNewBucket(L, renderOrder, material, vertices, spriteCount, overlay) ==
    IF ~NazaraAssert(material # Null) THEN L ELSE
    LET L1           == GetLayer(L, renderOrder)
        basicSprites == L1[renderOrder].basicSprites
        matIt        == MapFind(basicSprites, material, BatchedSpriteMaterialComparator)
        matKey       == IF matIt = {} THEN material ELSE CHOOSE k \in matIt : TRUE
        entry        == IF matIt = {} THEN NewBatchedBasicSpriteEntry(material) ELSE basicSprites[matKey]
        chain        == [vertices |-> vertices, spriteCount |-> spriteCount]
        entry2       == [entry EXCEPT !.enabled = TRUE,
                                      !.overlayMap = MapPut(entry.overlayMap, overlay,
                                          [NewBatchedSpriteEntry(overlay) EXCEPT !.spriteChains = <<chain>>])]
    IN  [L1 EXCEPT ![renderOrder].basicSprites = MapPut(basicSprites, matKey, entry2)]

AddSprites(L, renderOrder, material, vertices, spriteCount, overlay) ==
    IF ~NazaraAssert(material # Null) THEN L ELSE
    LET L1           == GetLayer(L, renderOrder)
        basicSprites == L1[renderOrder].basicSprites
        matIt        == MapFind(basicSprites, material, BatchedSpriteMaterialComparator)
        matKey       == IF matIt = {} THEN material ELSE CHOOSE k \in matIt : TRUE
        entry        == IF matIt = {} THEN NewBatchedBasicSpriteEntry(material) ELSE basicSprites[matKey]
        overlayMap   == entry.overlayMap
        overlayIt    == MapFind(overlayMap, overlay, TextureLess)
        overlayKey   == IF overlayIt = {} THEN overlay ELSE CHOOSE k \in overlayIt : TRUE
        overlayEntry == IF overlayIt = {} THEN NewBatchedSpriteEntry(overlay) ELSE overlayMap[overlayKey]
        chain        == [vertices |-> vertices, spriteCount |-> spriteCount]
        entry2       == [entry EXCEPT !.enabled = TRUE,
                                      !.overlayMap = MapPut(overlayMap, overlayKey,
                                          [overlayEntry EXCEPT !.spriteChains = Append(@, chain)])]
    IN  [L1 EXCEPT ![renderOrder].basicSprites = MapPut(basicSprites, matKey, entry2)]

(***************************************************************************)
(* ForwardRenderQueue::AddBillboard                                        *)
(***************************************************************************)
\* AddBillboard with the layer looked up before the material is checked.
AddBillboardLayerFirst(L, renderOrder, material, position, size, sinCos, color) ==
    IF ~NazaraAssert(material # Null) THEN GetLayer(L, renderOrder) ELSE
    LET L1         == GetLayer(L, renderOrder)
        billboards == L1[renderOrder].billboards
        it         == MapFind(billboards, material, BatchedBillboardComparator)
        matKey     == IF it = {} THEN material ELSE CHOOSE k \in it : TRUE
        entry      == IF it = {} THEN NewBatchedBillboardEntry(material) ELSE billboards[matKey]
        entry2     == [entry EXCEPT !.billboards = Append(@, BillboardData(color, position, size, sinCos))]
    IN  [L1 EXCEPT ![renderOrder].billboards = MapPut(billboards, matKey, entry2)]

AddBillboard(L, renderOrder, material, position, size, sinCos, color) ==
    IF ~NazaraAssert(material # Null) THEN L ELSE
    LET L1         == GetLayer(L, renderOrder)
        billboards == L1[renderOrder].billboards
        it         == MapFind(billboards, material, BatchedBillboardComparator)
        matKey     == IF it = {} THEN material ELSE CHOOSE k \in it : TRUE
        entry      == IF it = {} THEN NewBatchedBillboardEntry(material) ELSE billboards[matKey]
        entry2     == [entry EXCEPT !.billboards = Append(@, BillboardData(color, position, size, sinCos))]
    IN  [L1 EXCEPT ![renderOrder].billboards = MapPut(billboards, matKey, entry2)]

(***************************************************************************)
(* ForwardRenderQueue::GetBillboardData and AddBillboards (positions,      *)
(* sizes, sin/cos pairs, colours).  A SparsePtr is the sequence of values  *)
(* it walks over, or Null.                                                 *)
(***************************************************************************)
\* Color::White
White == <<255, 255, 255, 255>>

\* A BillboardData that resize() has made and the loop has not yet written.
UnsetBillboard == BillboardData(<<>>, <<>>, <<>>, <<>>)

\* GetBillboardData that resizes the vector to count, not to prevSize + count.
GetBillboardDataResizesToCount(L, renderOrder, material, count) ==
    LET L1         == GetLayer(L, renderOrder)
        billboards == L1[renderOrder].billboards
        it         == MapFind(billboards, material, BatchedBillboardComparator)
        matKey     == IF it = {} THEN material ELSE CHOOSE k \in it : TRUE
        entry      == IF it = {} THEN NewBatchedBillboardEntry(material) ELSE billboards[matKey]
        entry2     == [entry EXCEPT !.billboards = [i \in 1..count |-> UnsetBillboard]]
    IN  [L1 EXCEPT ![renderOrder].billboards = MapPut(billboards, matKey, entry2)]

GetBillboardData(L, renderOrder, material, count) ==
    LET L1         == GetLayer(L, renderOrder)
        billboards == L1[renderOrder].billboards
        it         == MapFind(billboards, material, BatchedBillboardComparator)
        matKey     == IF it = {} THEN material ELSE CHOOSE k \in it : TRUE
        entry      == IF it = {} THEN NewBatchedBillboardEntry(material) ELSE billboards[matKey]
        entry2     == [entry EXCEPT !.billboards = @ \o [i \in 1..count |-> UnsetBillboard]]
    IN  [L1 EXCEPT ![renderOrder].billboards = MapPut(billboards, matKey, entry2)]

\* A SparsePtr that is null: an array of no elements.
NullPtr == <<>>

AddBillboards(L, renderOrder, material, count, positionPtr, sizePtr, sinCosPtr, colorPtr) ==
    IF ~NazaraAssert(material # Null) THEN L ELSE
    LET L1       == GetBillboardData(L, renderOrder, material, count)
        matKey   == CHOOSE k \in MapFind(L1[renderOrder].billboards, material, BatchedBillboardComparator) : TRUE
        vec      == L1[renderOrder].billboards[matKey].billboards
        prevSize == Len(vec) - count
        data(i)  == BillboardData(IF colorPtr = NullPtr THEN White ELSE colorPtr[i],
                                  positionPtr[i],
                                  sizePtr[i],
                                  IF sinCosPtr = NullPtr THEN <<0, 1>> ELSE sinCosPtr[i])
    IN  [L1 EXCEPT ![renderOrder].billboards[matKey].billboards =
            [j \in 1..Len(vec) |-> IF j > prevSize THEN data(j - prevSize) ELSE vec[j]]]

(***************************************************************************)
(* The other AddBillboards overloads.  They differ in what they are handed *)
(* per billboard: a size vector or one float for both sizes, a sin/cos     *)
(* pair or an angle in degrees, a colour or an alpha.  A float alpha is    *)
(* counted in thousandths.                                                 *)
(***************************************************************************)
\* The float 1.f, in thousandths.
AlphaUnit == 1000

\* Color(255, 255, 255, static_cast<UInt8>(255.f * alpha)): the conversion
\* drops the fraction.
AlphaColor(alpha) == <<255, 255, 255, (255 * alpha) \div AlphaUnit>>

\* std::sin(ToRadians(angle)), std::cos(ToRadians(angle)) for the right angles.
SinCosOfAngle(angle) == CASE angle = 0   -> <<0, 1>>
                          [] angle = 90  -> <<1, 0>>
                          [] angle = 180 -> <<0, -1>>
                          [] OTHER       -> <<-1, 0>>

\* GetBillboardData followed by the loop that writes the count new entries.
WriteBillboards(L, renderOrder, material, count, data) ==
    LET L1       == GetBillboardData(L, renderOrder, material, count)
        matKey   == CHOOSE k \in MapFind(L1[renderOrder].billboards, material, BatchedBillboardComparator) : TRUE
        vec      == L1[renderOrder].billboards[matKey].billboards
        prevSize == Len(vec) - count
    IN  [L1 EXCEPT ![renderOrder].billboards[matKey].billboards =
            [j \in 1..Len(vec) |-> IF j > prevSize THEN data[j - prevSize] ELSE vec[j]]]

\* (Vector2f size, Vector2f sinCos, float alpha)
AddBillboardsSinCosAlpha(L, renderOrder, material, count, positionPtr, sizePtr, sinCosPtr, alphaPtr) ==
    IF ~NazaraAssert(material # Null) THEN L ELSE
    WriteBillboards(L, renderOrder, material, count, [i \in 1..count |->
        BillboardData(AlphaColor(IF alphaPtr = NullPtr THEN AlphaUnit ELSE alphaPtr[i]),
                      positionPtr[i],
                      sizePtr[i],
                      IF sinCosPtr = NullPtr THEN <<0, 1>> ELSE sinCosPtr[i])])

\* (Vector2f size, float angle, Color color)
AddBillboardsAngleColor(L, renderOrder, material, count, positionPtr, sizePtr, anglePtr, colorPtr) ==
    IF ~NazaraAssert(material # Null) THEN L ELSE
    WriteBillboards(L, renderOrder, material, count, [i \in 1..count |->
        BillboardData(IF colorPtr = NullPtr THEN White ELSE colorPtr[i],
                      positionPtr[i],
                      sizePtr[i],
                      SinCosOfAngle(IF anglePtr = NullPtr THEN 0 ELSE anglePtr[i]))])

\* The overload with a default alpha of 0.f.
AddBillboardsAngleAlphaDefaultZero(L, renderOrder, material, count, positionPtr, sizePtr, anglePtr, alphaPtr) ==
    IF ~NazaraAssert(material # Null) THEN L ELSE
    WriteBillboards(L, renderOrder, material, count, [i \in 1..count |->
        BillboardData(AlphaColor(IF alphaPtr = NullPtr THEN 0 ELSE alphaPtr[i]),
                      positionPtr[i],
                      sizePtr[i],
                      SinCosOfAngle(IF anglePtr = NullPtr THEN 0 ELSE anglePtr[i]))])

\* (Vector2f size, float angle, float alpha)
AddBillboardsAngleAlpha(L, renderOrder, material, count, positionPtr, sizePtr, anglePtr, alphaPtr) ==
    IF ~NazaraAssert(material # Null) THEN L ELSE
    WriteBillboards(L, renderOrder, material, count, [i \in 1..count |->
        BillboardData(AlphaColor(IF alphaPtr = NullPtr THEN AlphaUnit ELSE alphaPtr[i]),
                      positionPtr[i],
                      sizePtr[i],
                      SinCosOfAngle(IF anglePtr = NullPtr THEN 0 ELSE anglePtr[i]))])

\* (float size, Vector2f sinCos, Color color)
AddBillboardsFloatSinCosColor(L, renderOrder, material, count, positionPtr, sizePtr, sinCosPtr, colorPtr) ==
    IF ~NazaraAssert(material # Null) THEN L ELSE
    WriteBillboards(L, renderOrder, material, count, [i \in 1..count |->
        BillboardData(IF colorPtr = NullPtr THEN White ELSE colorPtr[i],
                      positionPtr[i],
                      <<sizePtr[i], sizePtr[i]>>,
                      IF sinCosPtr = NullPtr THEN <<0, 1>> ELSE sinCosPtr[i])])

\* (float size, Vector2f sinCos, float alpha)
AddBillboardsFloatSinCosAlpha(L, renderOrder, material, count, positionPtr, sizePtr, sinCosPtr, alphaPtr) ==
    IF ~NazaraAssert(material # Null) THEN L ELSE
    WriteBillboards(L, renderOrder, material, count, [i \in 1..count |->
        BillboardData(AlphaColor(IF alphaPtr = NullPtr THEN AlphaUnit ELSE alphaPtr[i]),
                      positionPtr[i],
                      <<sizePtr[i], sizePtr[i]>>,
                      IF sinCosPtr = NullPtr THEN <<0, 1>> ELSE sinCosPtr[i])])

\* (float size, float angle, Color color)
AddBillboardsFloatAngleColor(L, renderOrder, material, count, positionPtr, sizePtr, anglePtr, colorPtr) ==
    IF ~NazaraAssert(material # Null) THEN L ELSE
    WriteBillboards(L, renderOrder, material, count, [i \in 1..count |->
        BillboardData(IF colorPtr = NullPtr THEN White ELSE colorPtr[i],
                      positionPtr[i],
                      <<sizePtr[i], sizePtr[i]>>,
                      SinCosOfAngle(IF anglePtr = NullPtr THEN 0 ELSE anglePtr[i]))])

\* (float size, float angle, float alpha)
AddBillboardsFloatAngleAlpha(L, renderOrder, material, count, positionPtr, sizePtr, anglePtr, alphaPtr) ==
    IF ~NazaraAssert(material # Null) THEN L ELSE
    WriteBillboards(L, renderOrder, material, count, [i \in 1..count |->
        BillboardData(AlphaColor(IF alphaPtr = NullPtr THEN AlphaUnit ELSE alphaPtr[i]),
                      positionPtr[i],
                      <<sizePtr[i], sizePtr[i]>>,
                      SinCosOfAngle(IF anglePtr = NullPtr THEN 0 ELSE anglePtr[i]))])

\* The overloads by name, as a caller picks one: the last two arguments are
\* the rotation and the tint the overload takes.
AddBillboardsOverloads ==
    {"SinCosColor", "SinCosAlpha", "AngleColor", "AngleAlpha",
     "FloatSinCosColor", "FloatSinCosAlpha", "FloatAngleColor", "FloatAngleAlpha"}

AddBillboardsAs(overload, L, renderOrder, material, count, positionPtr, sizePtr, rotationPtr, tintPtr) ==
    CASE overload = "SinCosColor"      -> AddBillboards(L, renderOrder, material, count, positionPtr, sizePtr, rotationPtr, tintPtr)
      [] overload = "SinCosAlpha"      -> AddBillboardsSinCosAlpha(L, renderOrder, material, count, positionPtr, sizePtr, rotationPtr, tintPtr)
      [] overload = "AngleColor"       -> AddBillboardsAngleColor(L, renderOrder, material, count, positionPtr, sizePtr, rotationPtr, tintPtr)
      [] overload = "AngleAlpha"       -> AddBillboardsAngleAlpha(L, renderOrder, material, count, positionPtr, sizePtr, rotationPtr, tintPtr)
      [] overload = "FloatSinCosColor" -> AddBillboardsFloatSinCosColor(L, renderOrder, material, count, positionPtr, sizePtr, rotationPtr, tintPtr)
      [] overload = "FloatSinCosAlpha" -> AddBillboardsFloatSinCosAlpha(L, renderOrder, material, count, positionPtr, sizePtr, rotationPtr, tintPtr)
      [] overload = "FloatAngleColor"  -> AddBillboardsFloatAngleColor(L, renderOrder, material, count, positionPtr, sizePtr, rotationPtr, tintPtr)
      [] OTHER                         -> AddBillboardsFloatAngleAlpha(L, renderOrder, material, count, positionPtr, sizePtr, rotationPtr, tintPtr)

(***************************************************************************)
(* ForwardRenderQueue::AddDrawable                                         *)
(***************************************************************************)
\* AddDrawable with the layer looked up before the drawable is checked.
AddDrawableLayerFirst(L, renderOrder, drawable) ==
    LET L1 == GetLayer(L, renderOrder)
    IN  IF NAZARA_GRAPHICS_SAFE /\ drawable = Null
        THEN L1
        ELSE [L1 EXCEPT ![renderOrder].otherDrawables = Append(@, drawable)]

AddDrawable(L, renderOrder, drawable) ==
    IF NAZARA_GRAPHICS_SAFE /\ drawable = Null
    THEN L
    ELSE LET L1 == GetLayer(L, renderOrder)
         IN  [L1 EXCEPT ![renderOrder].otherDrawables = Append(@, drawable)]

(***************************************************************************)
(* ForwardRenderQueue::Clear.  AbstractRenderQueue::Clear(fully) empties   *)
(* the light lists of the base class, which are no part of this model.     *)
(***************************************************************************)
\* The test with > in place of >=.
ClearDropsLayerLate(clearCount) == clearCount > ClearCountLimit

\* if (layer.clearCount++ >= 100): the test reads the count before the increment.
ClearDropsLayer(clearCount) == clearCount >= ClearCountLimit

\* ClearLayer that leaves the count as it is.
ClearLayerKeepsCount(layer) ==
    [layer EXCEPT !.otherDrawables = <<>>,
                  !.transparentModels = <<>>,
                  !.transparentModelData = <<>>]

\* ClearLayer with the instancing flags put back to false for the next frame.
ClearLayerResetInstancing(layer) ==
    [layer EXCEPT !.clearCount = @ + 1,
                  !.otherDrawables = <<>>,
                  !.transparentModels = <<>>,
                  !.transparentModelData = <<>>,
                  !.opaqueModels = [m \in DOMAIN @ |-> [@[m] EXCEPT !.instancingEnabled = FALSE]]]

\* ClearLayer with the batch maps emptied as well.
ClearLayerAndBatches(layer) ==
    [layer EXCEPT !.clearCount = @ + 1,
                  !.otherDrawables = <<>>,
                  !.transparentModels = <<>>,
                  !.transparentModelData = <<>>,
                  !.opaqueModels = EmptyMap,
                  !.basicSprites = EmptyMap,
                  !.billboards = EmptyMap]

ClearLayer(layer) ==
    [layer EXCEPT !.clearCount = @ + 1,
                  !.otherDrawables = <<>>,
                  !.transparentModels = <<>>,
                  !.transparentModelData = <<>>]

\* Clear with `fully` ignored: the lightweight clear in both cases.
ClearIgnoringFully(L, fully) ==
    [i \in {k \in DOMAIN L : ~ClearDropsLayer(L[k].clearCount)} |->
        [L[i] EXCEPT !.clearCount = @ + 1,
                     !.otherDrawables = <<>>,
                     !.transparentModels = <<>>,
                     !.transparentModelData = <<>>]]

Clear(L, fully) ==
    IF fully
    THEN EmptyMap
    ELSE [i \in {k \in DOMAIN L : ~ClearDropsLayer(L[k].clearCount)} |-> ClearLayer(L[i])]

(***************************************************************************)
(* ForwardRenderQueue::Sort.  The viewer is what Sort reads of it: the     *)
(* near plane of its frustum (normal, distance), its eye position and its  *)
(* forward vector.                                                         *)
(***************************************************************************)
Viewer(forward, nearDistance, eyePosition) ==
    [nearPlane   |-> [normal |-> forward, distance |-> nearDistance],
     eyePosition |-> eyePosition,
     forward     |-> forward]

\* Spheref::GetNegativeVertex(normal)
GetNegativeVertex(sphere, normal) == sphere.pos - normal * sphere.radius

\* Planef::Distance(point)
PlaneDistance(plane, point) == plane.normal * point - plane.distance

\* Vector3f::SquaredDistance(vec)
SquaredDistance(a, b) == (a - b) * (a - b)

\* The value the lambda of the transparent sort compares for one index.
TransparentSortKey(layer, viewer, index) ==
    PlaneDistance(viewer.nearPlane,
                  GetNegativeVertex(layer.transparentModelData[index + 1].squaredBoundingSphere,
                                    viewer.forward))

\* comp(a, b) with < in place of >.
SortCompAscending(keyA, keyB) == keyA < keyB

\* comp(a, b) of both lambdas: the key of a is greater than the key of b.
SortComp(keyA, keyB) == keyA > keyB

\* std::sort on a short range is an insertion sort (libstdc++: ranges of at
\* most 16 elements): each element in turn is moved before the elements at
\* the end of the sorted prefix that it compares before.
RECURSIVE LinearInsert(_, _, _)
LinearInsert(sorted, val, key) ==
    IF sorted = <<>> THEN <<val>>
    ELSE IF SortComp(key[val], key[Last(sorted)])
         THEN Append(LinearInsert(Front(sorted), val, key), Last(sorted))
         ELSE Append(sorted, val)

RECURSIVE StdSort(_, _)
StdSort(s, key) ==
    IF s = <<>> THEN <<>>
    ELSE LinearInsert(StdSort(Front(s), key), Last(s), key)

SortTransparentModels(layer, viewer) ==
    StdSort(layer.transparentModels,
            [index \in Range(layer.transparentModels) |-> TransparentSortKey(layer, viewer, index)])

\* SortBillboards without the test of the material's depth sorting.
SortBillboardsAlways(material, entry, viewer) ==
    [entry EXCEPT !.billboards =
        StdSort(@, [data \in Range(entry.billboards) |->
                       SquaredDistance(viewer.eyePosition, data.center)])]

SortBillboards(material, entry, viewer) ==
    IF IsDepthSortingEnabled(material)
    THEN [entry EXCEPT !.billboards =
             StdSort(@, [data \in Range(entry.billboards) |->
                            SquaredDistance(viewer.eyePosition, data.center)])]
    ELSE entry

\* SortLayer that sorts the custom drawables and the instances of the opaque
\* meshes as well, by their value.
SortLayerEverything(layer, viewer) ==
    [layer EXCEPT !.transparentModels = SortTransparentModels(layer, viewer),
                  !.billboards = [mat \in DOMAIN @ |-> SortBillboards(mat, @[mat], viewer)],
                  !.otherDrawables = StdSort(@, [d \in Range(layer.otherDrawables) |-> d]),
                  !.opaqueModels = [mat \in DOMAIN @ |->
                      [@[mat] EXCEPT !.meshMap = [md \in DOMAIN @ |->
                          [@[md] EXCEPT !.instances = StdSort(@, [t \in Range(@) |-> t])]]]]]

SortLayer(layer, viewer) ==
    [layer EXCEPT !.transparentModels = SortTransparentModels(layer, viewer),
                  !.billboards = [mat \in DOMAIN @ |-> SortBillboards(mat, @[mat], viewer)]]

Sort(L, viewer) == [i \in DOMAIN L |-> SortLayer(L[i], viewer)]

(***************************************************************************)
(* The release handlers.                                                   *)
(***************************************************************************)
\* OnMaterialInvalidation without the erase of the billboard batch.
OnMaterialInvalidationLayerNoBillboards(layer, material) ==
    [layer EXCEPT !.basicSprites = MapErase(@, material, BatchedSpriteMaterialComparator),
                  !.opaqueModels = MapErase(@, material, BatchedModelMaterialComparator)]

OnMaterialInvalidationLayer(layer, material) ==
    [layer EXCEPT !.basicSprites = MapErase(@, material, BatchedSpriteMaterialComparator),
                  !.billboards   = MapErase(@, material, BatchedBillboardComparator),
                  !.opaqueModels = MapErase(@, material, BatchedModelMaterialComparator)]

\* OnMaterialInvalidation that erases the layers it has left without a batch.
OnMaterialInvalidationDropsEmptyLayers(L, material) ==
    LET Emptied(layer) == /\ layer.opaqueModels = EmptyMap
                          /\ layer.basicSprites = EmptyMap
                          /\ layer.billboards = EmptyMap
    IN  [i \in {k \in DOMAIN L : ~Emptied(OnMaterialInvalidationLayer(L[k], material))} |->
            OnMaterialInvalidationLayer(L[i], material)]

OnMaterialInvalidation(L, material) ==
    [i \in DOMAIN L |-> OnMaterialInvalidationLayer(L[i], material)]

OnIndexBufferInvalidation(L, indexBuffer) ==
    [i \in DOMAIN L |->
        [L[i] EXCEPT !.opaqueModels = [mat \in DOMAIN @ |->
            [@[mat] EXCEPT !.meshMap =
                [renderData \in {d \in DOMAIN @ : d.indexBuffer # indexBuffer} |-> @[renderData]]]]]]

\* OnVertexBufferInvalidation that erases the material entries it has
\* emptied.
OnVertexBufferInvalidationDropsEmpty(L, vertexBuffer) ==
    [i \in DOMAIN L |->
        [L[i] EXCEPT !.opaqueModels =
            [mat \in {m \in DOMAIN @ : \E d \in DOMAIN @[m].meshMap : d.vertexBuffer # vertexBuffer} |->
                [@[mat] EXCEPT !.meshMap =
                    [renderData \in {d \in DOMAIN @ : d.vertexBuffer # vertexBuffer} |-> @[renderData]]]]]]

OnVertexBufferInvalidation(L, vertexBuffer) ==
    [i \in DOMAIN L |->
        [L[i] EXCEPT !.opaqueModels = [mat \in DOMAIN @ |->
            [@[mat] EXCEPT !.meshMap =
                [renderData \in {d \in DOMAIN @ : d.vertexBuffer # vertexBuffer} |-> @[renderData]]]]]]

\* OnTextureInvalidation that erases the sprite batches holding the texture,
\* material entry and all.
OnTextureInvalidationDropsMaterial(L, texture) ==
    [i \in DOMAIN L |->
        [L[i] EXCEPT !.basicSprites =
            [mat \in {m \in DOMAIN @ : MapFind(@[m].overlayMap, texture, TextureLess) = {}} |-> @[mat]]]]

OnTextureInvalidation(L, texture) ==
    [i \in DOMAIN L |->
        [L[i] EXCEPT !.basicSprites = [mat \in DOMAIN @ |->
            [@[mat] EXCEPT !.overlayMap = MapErase(@, texture, TextureLess)]]]]

(***************************************************************************)
(* The signals of the resources.  A release signal calls the handler of    *)
(* every slot connected to it; the first call erases every entry that      *)
(* holds such a slot, so the handler runs once when at least one slot is   *)
(* connected, and not at all otherwise.                                    *)
(***************************************************************************)
MaterialSlots(L) ==
    UNION {   {L[i].opaqueModels[m].materialReleaseSlot : m \in DOMAIN L[i].opaqueModels}
         \cup {L[i].basicSprites[m].materialReleaseSlot : m \in DOMAIN L[i].basicSprites}
         \cup {L[i].billboards[m].materialReleaseSlot   : m \in DOMAIN L[i].billboards}
         : i \in DOMAIN L}

MeshEntries(L) ==
    UNION {UNION {Range(L[i].opaqueModels[m].meshMap) : m \in DOMAIN L[i].opaqueModels} : i \in DOMAIN L}

IndexBufferSlots(L) == {e.indexBufferReleaseSlot : e \in MeshEntries(L)} \ {Null}

VertexBufferSlots(L) == {e.vertexBufferReleaseSlot : e \in MeshEntries(L)}

TextureSlots(L) ==
    UNION {UNION {{L[i].basicSprites[m].overlayMap[t].textureReleaseSlot : t \in DOMAIN L[i].basicSprites[m].overlayMap}
                  : m \in DOMAIN L[i].basicSprites} : i \in DOMAIN L} \ {Null}

MaterialRelease(L, material) ==
    IF material \in MaterialSlots(L) THEN OnMaterialInvalidation(L, material) ELSE L

IndexBufferRelease(L, indexBuffer) ==
    IF indexBuffer \in IndexBufferSlots(L) THEN OnIndexBufferInvalidation(L, indexBuffer) ELSE L

VertexBufferRelease(L, vertexBuffer) ==
    IF vertexBuffer \in VertexBufferSlots(L) THEN OnVertexBufferInvalidation(L, vertexBuffer) ELSE L

TextureRelease(L, texture) ==
    IF texture \in TextureSlots(L) THEN OnTextureInvalidation(L, texture) ELSE L

(***************************************************************************)
(* What a call found in the registry, for `op`.                            *)
(***************************************************************************)
\* The batch maps, as <<layer key, map>>, that hold an entry keyed by the material.
MaterialPlaces(L, material) ==
    UNION {   {<<i, "opaqueModels">> : x \in {m \in DOMAIN L[i].opaqueModels : m = material}}
         \cup {<<i, "basicSprites">> : x \in {m \in DOMAIN L[i].basicSprites : m = material}}
         \cup {<<i, "billboards">>   : x \in {m \in DOMAIN L[i].billboards : m = material}}
         : i \in DOMAIN L}

\* The layer is in the registry and has been through a Clear(false) since
\* its last submission.
WasIdle(L, renderOrder) == renderOrder \in DOMAIN L /\ L[renderOrder].clearCount > 0

\* Every connected slot of the queue, as <<signal, resource>>.
AllSlots(L) ==
         {<<"OnMaterialRelease", r>>     : r \in MaterialSlots(L)}
    \cup {<<"OnIndexBufferRelease", r>>  : r \in IndexBufferSlots(L)}
    \cup {<<"OnVertexBufferRelease", r>> : r \in VertexBufferSlots(L)}
    \cup {<<"OnTextureRelease", r>>      : r \in TextureSlots(L)}

\* The entries of a layer that live for one frame.
TransientSize(layer) == Len(layer.transparentModelData) + Len(layer.otherDrawables)

(***************************************************************************)
(* The calls on the queue, as actions.  Each records itself in `op` and    *)
(* keeps `idle`: a submission to a layer key resets the key's count, a     *)
(* Clear(false) adds one for every layer it finds in the registry.         *)
(***************************************************************************)
AllLayerKeys == {1, 2}

Submitted(renderOrder) == idle' = [idle EXCEPT ![renderOrder] = 0]

CallAddMesh(renderOrder, material, meshData, meshAABB, transformMatrix) ==
    /\ layers' = AddMesh(layers, renderOrder, material, meshData, meshAABB, transformMatrix)
    /\ op' = [name |-> "AddMesh", renderOrder |-> renderOrder, material |-> material,
              meshData |-> meshData, meshAABB |-> meshAABB, transformMatrix |-> transformMatrix,
              wasIdle |-> WasIdle(layers, renderOrder)]
    /\ IF material = Null THEN UNCHANGED idle ELSE Submitted(renderOrder)

CallAddSprites(renderOrder, material, vertices, spriteCount, overlay) ==
    /\ layers' = AddSprites(layers, renderOrder, material, vertices, spriteCount, overlay)
    /\ op' = [name |-> "AddSprites", renderOrder |-> renderOrder, material |-> material,
              vertices |-> vertices, spriteCount |-> spriteCount, overlay |-> overlay,
              wasIdle |-> WasIdle(layers, renderOrder)]
    /\ IF material = Null THEN UNCHANGED idle ELSE Submitted(renderOrder)

CallAddBillboard(renderOrder, material, position, size, sinCos, color) ==
    /\ layers' = AddBillboard(layers, renderOrder, material, position, size, sinCos, color)
    /\ op' = [name |-> "AddBillboard", renderOrder |-> renderOrder, material |-> material,
              position |-> position, size |-> size, sinCos |-> sinCos, color |-> color,
              wasIdle |-> WasIdle(layers, renderOrder)]
    /\ IF material = Null THEN UNCHANGED idle ELSE Submitted(renderOrder)

CallAddBillboards(renderOrder, material, count, positionPtr, sizePtr, sinCosPtr, colorPtr) ==
    /\ layers' = AddBillboards(layers, renderOrder, material, count, positionPtr, sizePtr, sinCosPtr, colorPtr)
    /\ op' = [name |-> "AddBillboards", renderOrder |-> renderOrder, material |-> material,
              count |-> count, positionPtr |-> positionPtr, sizePtr |-> sizePtr,
              sinCosPtr |-> sinCosPtr, colorPtr |-> colorPtr,
              wasIdle |-> WasIdle(layers, renderOrder)]
    /\ IF material = Null THEN UNCHANGED idle ELSE Submitted(renderOrder)

CallAddBillboardsAs(overload, renderOrder, material, count, positionPtr, sizePtr, rotationPtr, tintPtr) ==
    /\ layers' = AddBillboardsAs(overload, layers, renderOrder, material, count, positionPtr, sizePtr, rotationPtr, tintPtr)
    /\ op' = [name |-> "AddBillboards", overload |-> overload, renderOrder |-> renderOrder,
              material |-> material, count |-> count, positionPtr |-> positionPtr, sizePtr |-> sizePtr,
              rotationPtr |-> rotationPtr, tintPtr |-> tintPtr,
              wasIdle |-> WasIdle(layers, renderOrder)]
    /\ IF material = Null THEN UNCHANGED idle ELSE Submitted(renderOrder)

CallAddDrawable(renderOrder, drawable) ==
    /\ layers' = AddDrawable(layers, renderOrder, drawable)
    /\ op' = [name |-> "AddDrawable", renderOrder |-> renderOrder, drawable |-> drawable,
              wasIdle |-> WasIdle(layers, renderOrder)]
    /\ IF NAZARA_GRAPHICS_SAFE /\ drawable = Null THEN UNCHANGED idle ELSE Submitted(renderOrder)

CallClear(fully) ==
    /\ layers' = Clear(layers, fully)
    /\ op' = [name |-> "Clear", fully |-> fully,
              dropped    |-> DOMAIN layers \ DOMAIN Clear(layers, fully),
              emptied    |-> {k \in DOMAIN layers : TransientSize(layers[k]) > 0},
              subscribed |-> AllSlots(layers) # {}]
    /\ idle' = IF fully THEN idle
               ELSE [k \in AllLayerKeys |-> IF k \in DOMAIN layers THEN idle[k] + 1 ELSE idle[k]]

CallSort(viewer) ==
    /\ layers' = Sort(layers, viewer)
    /\ op' = [name |-> "Sort", viewer |-> viewer]
    /\ UNCHANGED idle

EmitMaterialRelease(material) ==
    /\ layers' = MaterialRelease(layers, material)
    /\ op' = [name |-> "MaterialRelease", material |-> material,
              handled |-> material \in MaterialSlots(layers),
              found   |-> MaterialPlaces(layers, material)]
    /\ UNCHANGED idle

EmitIndexBufferRelease(indexBuffer) ==
    /\ layers' = IndexBufferRelease(layers, indexBuffer)
    /\ op' = [name |-> "IndexBufferRelease", indexBuffer |-> indexBuffer,
              handled |-> indexBuffer \in IndexBufferSlots(layers)]
    /\ UNCHANGED idle

EmitVertexBufferRelease(vertexBuffer) ==
    /\ layers' = VertexBufferRelease(layers, vertexBuffer)
    /\ op' = [name |-> "VertexBufferRelease", vertexBuffer |-> vertexBuffer,
              handled |-> vertexBuffer \in VertexBufferSlots(layers)]
    /\ UNCHANGED idle

EmitTextureRelease(texture) ==
    /\ layers' = TextureRelease(layers, texture)
    /\ op' = [name |-> "TextureRelease", texture |-> texture,
              handled |-> texture \in TextureSlots(layers)]
    /\ UNCHANGED idle

(***************************************************************************)
(* What a model run is bounded by.                                         *)
(***************************************************************************)
RECURSIVE SumOver(_, _)
SumOver(S, f) ==
    IF S = {} THEN 0
    ELSE LET x == CHOOSE y \in S : TRUE IN f[x] + SumOver(S \ {x}, f)

MapSum(map, Count(_)) == SumOver(DOMAIN map, [k \in DOMAIN map |-> Count(map[k])])

InstanceCount(entry) == MapSum(entry.meshMap, LAMBDA e : Len(e.instances))

ChainCount(entry) == MapSum(entry.overlayMap, LAMBDA e : Len(e.spriteChains))

LayerSize(layer) ==
      MapSum(layer.opaqueModels, InstanceCount)
    + MapSum(layer.basicSprites, ChainCount)
    + MapSum(layer.billboards, LAMBDA e : Len(e.billboards))
    + Len(layer.transparentModelData)
    + Len(layer.otherDrawables)

\* The number of submissions the registry holds.
QueueSize(L) == MapSum(L, LayerSize)

\* The submissions a run keeps in the queue at a time.
MaxItems == 3

\* The Clear(false) calls a layer goes through without a submission, where
\* layer garbage collection is not what is looked at.
MaxClears == 1

Room == QueueSize(layers) < MaxItems

ClearRoom == \A k \in DOMAIN layers : layers[k].clearCount < MaxClears

InitQueue ==
    /\ layers = EmptyMap
    /\ op = [name |-> "Init"]
    /\ idle = [k \in AllLayerKeys |-> 0]
    /\ base = EmptyMap
    /\ calls = EmptyBag
    /\ drawer = NoDrawer

(***************************************************************************)
(* Spec: the whole interface of the queue on two layer keys, with few      *)
(* submissions in the queue at a time.                                     *)
(***************************************************************************)
DefaultViewer == Viewer(1, 0, 0)

SubmitMesh ==
    \E k \in AllLayerKeys, m \in {1, 3} :
        Room /\ CallAddMesh(k, m, MeshData(1, 1, 0), Box(0, 0), 0) /\ UNCHANGED <<base, calls, drawer>>

SubmitSprites ==
    \E k \in AllLayerKeys :
        Room /\ CallAddSprites(k, 1, 1, 1, 1) /\ UNCHANGED <<base, calls, drawer>>

SubmitBillboard ==
    \E k \in AllLayerKeys :
        Room /\ CallAddBillboard(k, 1, 0, 1, <<0, 1>>, White) /\ UNCHANGED <<base, calls, drawer>>

SubmitDrawable ==
    \E k \in AllLayerKeys :
        Room /\ CallAddDrawable(k, 1) /\ UNCHANGED <<base, calls, drawer>>

ClearFrame == ClearRoom /\ CallClear(FALSE) /\ UNCHANGED <<base, calls, drawer>>

ClearFully == CallClear(TRUE) /\ UNCHANGED <<base, calls, drawer>>

SortFrame == CallSort(DefaultViewer) /\ UNCHANGED <<base, calls, drawer>>

ReleaseMaterial == \E m \in {1, 3} : EmitMaterialRelease(m) /\ UNCHANGED <<base, calls, drawer>>

ReleaseIndexBuffer == EmitIndexBufferRelease(1) /\ UNCHANGED <<base, calls, drawer>>

ReleaseVertexBuffer == EmitVertexBufferRelease(1) /\ UNCHANGED <<base, calls, drawer>>

ReleaseTexture == EmitTextureRelease(1) /\ UNCHANGED <<base, calls, drawer>>

Next ==
    \/ SubmitMesh
    \/ SubmitSprites
    \/ SubmitBillboard
    \/ SubmitDrawable
    \/ ClearFrame
    \/ ClearFully
    \/ SortFrame
    \/ ReleaseMaterial
    \/ ReleaseIndexBuffer
    \/ ReleaseVertexBuffer
    \/ ReleaseTexture

Spec == InitQueue /\ [][Next]_vars

(***************************************************************************)
(* Material release.                                                       *)
(***************************************************************************)
\* The materials that key a batch map of the layer.
BatchKeys(layer) ==
    DOMAIN layer.opaqueModels \cup DOMAIN layer.basicSprites \cup DOMAIN layer.billboards

\* The materials the layer's transparent list refers to.
TransparentMaterials(layer) == {d.material : d \in Range(layer.transparentModelData)}

\* C1: once the release of a material has been delivered, no layer holds an
\* opaque, sprite or billboard batch keyed by that material, whatever was
\* submitted, sorted or cleared before.
C1_NoBatchKeyedByReleasedMaterial ==
    op.name = "MaterialRelease" =>
        \A i \in DOMAIN layers : op.material \notin BatchKeys(layers[i])

\* C1 witness: the handler ran for a material that keyed all three kinds of
\* batch map, in both layers taken together.
C1_Witness ==
    /\ op.name = "MaterialRelease"
    /\ op.handled
    /\ {pl[2] : pl \in op.found} = {"opaqueModels", "basicSprites", "billboards"}
    /\ {pl[1] : pl \in op.found} = AllLayerKeys

\* C2: once the release of a material has been delivered, nothing held in
\* any layer refers to it: no batch keyed by it, and no entry of a
\* transparent list.
C2_NoReferenceToReleasedMaterial ==
    op.name = "MaterialRelease" =>
        \A i \in DOMAIN layers :
            op.material \notin BatchKeys(layers[i]) \cup TransparentMaterials(layers[i])

(***************************************************************************)
(* Clear.                                                                  *)
(***************************************************************************)
IsRelease(o) ==
    o.name \in {"MaterialRelease", "IndexBufferRelease", "VertexBufferRelease", "TextureRelease"}

\* C5: Clear(true) leaves an empty registry (no layer, hence no batch and no
\* connected slot), and a release delivered right after it finds no slot and
\* changes nothing.
C5_ClearFullyEmptiesRegistry ==
    [][ /\ (op'.name = "Clear" /\ op'.fully) =>
               (layers' = EmptyMap /\ AllSlots(layers') = {} /\ QueueSize(layers') = 0)
        /\ (op.name = "Clear" /\ op.fully /\ IsRelease(op')) =>
               (layers' = layers /\ ~op'.handled) ]_vars

\* C5 witness: Clear(true) was called on a registry of two layers that held
\* connected slots.
C5_Witness ==
    /\ op.name = "Clear"
    /\ op.fully
    /\ op.dropped = AllLayerKeys
    /\ op.subscribed

\* The batch maps of a layer.
Batches(layer) == <<layer.opaqueModels, layer.basicSprites, layer.billboards>>

\* C6: every layer that Clear(false) keeps was there before, has its
\* transparent list and its custom-drawable list emptied, and has its three
\* batch maps as they were.
C6_ClearKeepsBatches ==
    [][ (op'.name = "Clear" /\ ~op'.fully) =>
            \A k \in DOMAIN layers' :
                /\ k \in DOMAIN layers
                /\ layers'[k].transparentModels = <<>>
                /\ layers'[k].transparentModelData = <<>>
                /\ layers'[k].otherDrawables = <<>>
                /\ Batches(layers'[k]) = Batches(layers[k]) ]_vars

\* C6 witness: Clear(false) kept a layer whose per-frame lists held entries
\* and whose batch maps hold some.
C6_Witness ==
    /\ op.name = "Clear"
    /\ ~op.fully
    /\ \E k \in op.emptied \cap DOMAIN layers : BatchKeys(layers[k]) # {}

(***************************************************************************)
(* SpecIdle: one layer key, every kind of submission, and Clear(false) as  *)
(* often as it takes for the layer to be garbage-collected; Sort and every *)
(* release in between.                                                     *)
(***************************************************************************)
\* The submissions a run of SpecIdle keeps in the queue at a time.
MaxIdleItems == 1

IdleRoom == QueueSize(layers) < MaxIdleItems

IdleSubmitMesh ==
    \E m \in {1, 3} :
        IdleRoom /\ CallAddMesh(1, m, MeshData(1, 1, 0), Box(0, 0), 0) /\ UNCHANGED <<base, calls, drawer>>

IdleSubmitSprites ==
    \E overlay \in {Null, 1} :
        IdleRoom /\ CallAddSprites(1, 1, 1, 1, overlay) /\ UNCHANGED <<base, calls, drawer>>

IdleSubmitBillboard ==
    IdleRoom /\ CallAddBillboard(1, 1, 0, 1, <<0, 1>>, White) /\ UNCHANGED <<base, calls, drawer>>

IdleSubmitBillboards ==
    \E count \in {0, 1} :
        IdleRoom /\ CallAddBillboards(1, 1, count, <<0>>, <<1>>, NullPtr, NullPtr) /\ UNCHANGED <<base, calls, drawer>>

IdleSubmitDrawable ==
    \E drawable \in {Null, 1} :
        IdleRoom /\ CallAddDrawable(1, drawable) /\ UNCHANGED <<base, calls, drawer>>

IdleClearFrame == CallClear(FALSE) /\ UNCHANGED <<base, calls, drawer>>

IdleClearFully == CallClear(TRUE) /\ UNCHANGED <<base, calls, drawer>>

IdleSort == CallSort(DefaultViewer) /\ UNCHANGED <<base, calls, drawer>>

IdleReleaseMaterial == EmitMaterialRelease(1) /\ UNCHANGED <<base, calls, drawer>>

IdleReleaseIndexBuffer == EmitIndexBufferRelease(1) /\ UNCHANGED <<base, calls, drawer>>

IdleReleaseVertexBuffer == EmitVertexBufferRelease(1) /\ UNCHANGED <<base, calls, drawer>>

IdleReleaseTexture == EmitTextureRelease(1) /\ UNCHANGED <<base, calls, drawer>>

NextIdle ==
    \/ IdleSubmitMesh
    \/ IdleSubmitSprites
    \/ IdleSubmitBillboard
    \/ IdleSubmitBillboards
    \/ IdleSubmitDrawable
    \/ IdleClearFrame
    \/ IdleClearFully
    \/ IdleSort
    \/ IdleReleaseMaterial
    \/ IdleReleaseIndexBuffer
    \/ IdleReleaseVertexBuffer
    \/ IdleReleaseTexture

SpecIdle == InitQueue /\ [][NextIdle]_vars

\* C3, as claimed: a layer that has been through 100 Clear(false) calls since
\* its last submission is no longer in the registry.
C3_DroppedAfter100Clears ==
    \A k \in AllLayerKeys : idle[k] >= 100 => k \notin DOMAIN layers

\* C3, amended: a layer that has been through 101 Clear(false) calls since its
\* last submission is no longer in the registry; until then its clearCount is
\* the number of those calls, so after 100 of them it is still there.
C3_DroppedAfter101Clears ==
    \A k \in AllLayerKeys :
        /\ idle[k] >= ClearCountLimit + 1 => k \notin DOMAIN layers
        /\ k \in DOMAIN layers => layers[k].clearCount = idle[k]
        /\ (idle[k] <= ClearCountLimit /\ op.name = "Clear" /\ ~op.fully) => k \notin op.dropped

\* C3 witness: the Clear(false) that dropped layer 1, its 101st since the
\* last submission to it.
C3_Witness ==
    /\ op.name = "Clear"
    /\ ~op.fully
    /\ op.dropped = {1}
    /\ idle[1] = ClearCountLimit + 1

IsAcceptedSubmission(o) ==
    \/ o.name \in {"AddMesh", "AddSprites", "AddBillboard", "AddBillboards"} /\ o.material # Null
    \/ o.name = "AddDrawable" /\ ~(NAZARA_GRAPHICS_SAFE /\ o.drawable = Null)

\* C4: an accepted submission to a layer key leaves that layer in the
\* registry with its clearCount at 0, and Clear(false) drops a layer only
\* when the layer has been through at least 100 Clear(false) calls since the
\* last submission to it: never a layer submitted to since the previous
\* Clear(false).
C4_SubmissionResetsIdleCount ==
    [][ /\ IsAcceptedSubmission(op') =>
               /\ op'.renderOrder \in DOMAIN layers'
               /\ layers'[op'.renderOrder].clearCount = 0
        /\ (op'.name = "Clear" /\ ~op'.fully) =>
               \A k \in DOMAIN layers \ DOMAIN layers' : idle[k] >= ClearCountLimit ]_vars

\* C4 witness: a drawable was accepted by a layer that had been through a
\* Clear(false) since its last submission, and the layer's count is 0 again.
C4_Witness ==
    /\ op.name = "AddDrawable"
    /\ op.drawable # Null
    /\ op.wasIdle
    /\ layers[op.renderOrder].clearCount = 0

\* C28 (checked in SpecIdle): the clearCount of every layer is between 0 and
\* 100; an accepted submission leaves the clearCount of its layer at 0 and
\* that of every other layer as it was; a Clear(false) leaves every layer that
\* is still in the registry with its clearCount one higher; and any other
\* call or release (a rejected submission, Sort, the release of a material,
\* a buffer or a texture, Clear(true)) leaves the clearCount of every layer
\* the registry still holds as it was, and makes no layer.
C28_ClearCountFollowsTheCalls ==
    [][ /\ \A k \in DOMAIN layers' : layers'[k].clearCount \in 0 .. ClearCountLimit
        /\ \A k \in DOMAIN layers' :
               IF IsAcceptedSubmission(op') /\ op'.renderOrder = k
               THEN layers'[k].clearCount = 0
               ELSE /\ k \in DOMAIN layers
                    /\ layers'[k].clearCount =
                           IF op'.name = "Clear" /\ ~op'.fully
                           THEN layers[k].clearCount + 1
                           ELSE layers[k].clearCount ]_vars

\* C28 witness: the layer has just been through its 100th Clear(false) since
\* the last submission to it and is still in the registry, its count at 100.
C28_Witness ==
    /\ op.name = "Clear"
    /\ ~op.fully
    /\ 1 \in DOMAIN layers
    /\ layers[1].clearCount = ClearCountLimit
    /\ idle[1] = ClearCountLimit

(***************************************************************************)
(* SpecInst: one layer key and one opaque material, with enough instances  *)
(* of a mesh to reach the instancing threshold.  Of the three mesh handles *)
(* the last two differ by their index buffer only, and these two index     *)
(* buffers are ranges of one Buffer.                                       *)
(***************************************************************************)
InstMeshes == {MeshData(Null, 1, 0), MeshData(1, 2, 0), MeshData(2, 2, 0)}

\* The instances a run of SpecInst lets a mesh entry hold: one more than the
\* instancing threshold.
MaxInstances == 11

\* The sprite chains a run of SpecInst keeps.
MaxChains == 1

\* The instances of the mesh entry of layer i that the handle finds under the material.
InstancesOf(L, i, material, meshData) ==
    IF i \notin DOMAIN L \/ material \notin DOMAIN L[i].opaqueModels THEN <<>>
    ELSE LET meshMap == L[i].opaqueModels[material].meshMap
             it      == MapFind(meshMap, meshData, MeshDataComparator)
         IN  IF it = {} THEN <<>> ELSE meshMap[CHOOSE k \in it : TRUE].instances

InstSubmitMesh ==
    \E md \in InstMeshes :
        /\ Len(InstancesOf(layers, 1, 1, md)) < MaxInstances
        /\ CallAddMesh(1, 1, md, Box(0, 1), 0)
        /\ UNCHANGED <<base, calls, drawer>>

InstSubmitSprites ==
    /\ QueueSize(layers) - MapSum(layers, LAMBDA l : MapSum(l.opaqueModels, InstanceCount)) < MaxChains
    /\ CallAddSprites(1, 1, 1, 1, 1)
    /\ UNCHANGED <<base, calls, drawer>>

InstClearFrame == ClearRoom /\ CallClear(FALSE) /\ UNCHANGED <<base, calls, drawer>>

InstClearFully == CallClear(TRUE) /\ UNCHANGED <<base, calls, drawer>>

InstSort == CallSort(DefaultViewer) /\ UNCHANGED <<base, calls, drawer>>

InstReleaseMaterial == EmitMaterialRelease(1) /\ UNCHANGED <<base, calls, drawer>>

InstReleaseIndexBuffer == \E ib \in {1, 2} : EmitIndexBufferRelease(ib) /\ UNCHANGED <<base, calls, drawer>>

InstReleaseVertexBuffer == \E vb \in {1, 2} : EmitVertexBufferRelease(vb) /\ UNCHANGED <<base, calls, drawer>>

InstReleaseTexture == EmitTextureRelease(1) /\ UNCHANGED <<base, calls, drawer>>

NextInst ==
    \/ InstSubmitMesh
    \/ InstSubmitSprites
    \/ InstClearFrame
    \/ InstClearFully
    \/ InstSort
    \/ InstReleaseMaterial
    \/ InstReleaseIndexBuffer
    \/ InstReleaseVertexBuffer
    \/ InstReleaseTexture

SpecInst == InitQueue /\ [][NextInst]_vars

\* The opaque batches, as <<layer key, material>>.
OpaqueBatches(L) == UNION {{<<i, m>> : m \in DOMAIN L[i].opaqueModels} : i \in DOMAIN L}

\* The batch's flag, and whether one of its mesh entries has reached the threshold.
Flagged(L, b) == L[b[1]].opaqueModels[b[2]].instancingEnabled

SomeMeshReached(L, b) ==
    \E md \in DOMAIN L[b[1]].opaqueModels[b[2]].meshMap :
        Len(L[b[1]].opaqueModels[b[2]].meshMap[md].instances) >= NAZARA_GRAPHICS_INSTANCING_MIN_INSTANCES_COUNT

\* C8, as claimed: the flag that marks a (material, mesh) entry as eligible
\* for instancing is set exactly when that mesh entry holds at least the
\* threshold of instances.
C8_FlagIffMeshCountReached ==
    \A b \in OpaqueBatches(layers) :
        \A md \in DOMAIN layers[b[1]].opaqueModels[b[2]].meshMap :
            Flagged(layers, b) <=>
                Len(layers[b[1]].opaqueModels[b[2]].meshMap[md].instances)
                    >= NAZARA_GRAPHICS_INSTANCING_MIN_INSTANCES_COUNT

\* C8, amended: the flag is kept per material batch.  A batch one of whose
\* mesh entries holds at least the threshold of instances is flagged, and a
\* batch becomes flagged only by an AddMesh to it that leaves one of its mesh
\* entries with at least the threshold of instances.
C8_FlagPerMaterial ==
    [][ \A b \in OpaqueBatches(layers') :
            /\ SomeMeshReached(layers', b) => Flagged(layers', b)
            /\ (Flagged(layers', b) /\ ~(b \in OpaqueBatches(layers) /\ Flagged(layers, b))) =>
                   /\ op'.name = "AddMesh"
                   /\ <<op'.renderOrder, op'.material>> = b
                   /\ Len(InstancesOf(layers', b[1], b[2], op'.meshData))
                          >= NAZARA_GRAPHICS_INSTANCING_MIN_INSTANCES_COUNT ]_vars

\* C8 witness: a flagged batch that holds a mesh entry, none of its mesh
\* entries having the threshold of instances, after an index buffer release
\* removed the one that had.
C8_Witness ==
    /\ op.name = "IndexBufferRelease"
    /\ op.handled
    /\ \E b \in OpaqueBatches(layers) :
           /\ Flagged(layers, b)
           /\ ~SomeMeshReached(layers, b)
           /\ DOMAIN layers[b[1]].opaqueModels[b[2]].meshMap # {}

\* C9: a flagged batch stays flagged for as long as it is in its layer's
\* map, and it leaves the map only by a material release or a Clear.
C9_FlagStaysSet ==
    [][ \A b \in OpaqueBatches(layers) :
            Flagged(layers, b) =>
                IF b \in OpaqueBatches(layers')
                THEN Flagged(layers', b)
                ELSE op'.name \in {"MaterialRelease", "Clear"} ]_vars

\* C9 witness: a batch still flagged after a Clear(false) that its layer
\* survived.
C9_Witness ==
    /\ op.name = "Clear"
    /\ ~op.fully
    /\ \E b \in OpaqueBatches(layers) : Flagged(layers, b)

\* C30 (checked in SpecInst): Sort and the handlers of the four releases (of
\* a material, an index buffer, a vertex buffer, a texture) leave the registry
\* with the layers it had, under the same keys, each with the clearCount it
\* had: a layer whose batches a release has all removed stays in the
\* registry, empty, for a later Clear to drop.
C30_SortAndReleasesKeepLayers ==
    [][ op'.name \in {"Sort", "MaterialRelease", "IndexBufferRelease",
                      "VertexBufferRelease", "TextureRelease"} =>
            /\ DOMAIN layers' = DOMAIN layers
            /\ \A k \in DOMAIN layers : layers'[k].clearCount = layers[k].clearCount ]_vars

\* C30 witness: the release of the material was handled in a layer that had
\* been through a Clear(false) and batched meshes and sprites under it; the
\* layer is still there, with no batch and no element, its count still 1.
C30_Witness ==
    /\ op.name = "MaterialRelease"
    /\ op.handled
    /\ op.found = {<<1, "opaqueModels">>, <<1, "basicSprites">>}
    /\ DOMAIN layers = {1}
    /\ layers[1] = [NewLayer EXCEPT !.clearCount = 1]

(***************************************************************************)
(* SpecBatch: batches of opaque AddMesh calls, in every order, from a      *)
(* registry that is empty or holds a mesh entry one or two instances short *)
(* of the instancing threshold.                                            *)
(***************************************************************************)
\* The calls of a batch.
MaxBatch == 3

RECURSIVE Repeat(_, _, _, _, _)
Repeat(L, n, renderOrder, material, meshData) ==
    IF n = 0 THEN L
    ELSE Repeat(AddMesh(L, renderOrder, material, meshData, Box(0, 1), 0), n - 1,
                renderOrder, material, meshData)

BatchBases ==
    {Repeat(EmptyMap, n, 1, 1, MeshData(1, 2, 0)) :
        n \in {0, NAZARA_GRAPHICS_INSTANCING_MIN_INSTANCES_COUNT - 2,
                  NAZARA_GRAPHICS_INSTANCING_MIN_INSTANCES_COUNT - 1}}

InitBatch ==
    /\ base \in BatchBases
    /\ layers = base
    /\ op = [name |-> "Init"]
    /\ idle = [k \in AllLayerKeys |-> 0]
    /\ calls = EmptyBag
    /\ drawer = NoDrawer

BatchCall(renderOrder, material, meshData, transformMatrix) ==
    [renderOrder |-> renderOrder, material |-> material, meshData |-> meshData,
     transformMatrix |-> transformMatrix]

BatchAddMesh ==
    \E k \in {1}, m \in {1, 2}, md \in InstMeshes, t \in {0, 1} :
        /\ BagCardinality(calls) < MaxBatch
        /\ CallAddMesh(k, m, md, Box(0, 1), t)
        /\ calls' = calls (+) SetToBag({BatchCall(k, m, md, t)})
        /\ UNCHANGED <<base, drawer>>

NextBatch == BatchAddMesh

SpecBatch == InitBatch /\ [][NextBatch]_vars

\* The calls of the bag, made in one fixed order.
RECURSIVE Replay(_, _)
Replay(L, bag) ==
    IF BagToSet(bag) = {} THEN L
    ELSE LET c == CHOOSE x \in BagToSet(bag) : TRUE
         IN  Replay(AddMesh(L, c.renderOrder, c.material, c.meshData, Box(0, 1), c.transformMatrix),
                    bag (-) SetToBag({c}))

\* What a batch of AddMesh calls is to produce: per layer and material the
\* flag, and per mesh handle the set and the number of the instances of the
\* entry the handle finds.
BatchView(L) ==
    [i \in DOMAIN L |->
        [m \in DOMAIN L[i].opaqueModels |->
            [instancingEnabled |-> L[i].opaqueModels[m].instancingEnabled,
             instances |-> [md \in InstMeshes |->
                 <<Range(InstancesOf(L, i, m, md)), Len(InstancesOf(L, i, m, md))>>]]]]

\* C7: the opaque AddMesh calls made since `base`, whatever their order, have
\* produced the flags and the instance sets that the same calls produce in
\* one fixed order.
C7_BatchOrderIndependent ==
    BatchView(layers) = BatchView(Replay(base, calls))

\* C7 witness: a full batch whose calls reached the threshold, made in an
\* order that left the registry different from that of the fixed order.
C7_Witness ==
    /\ BagCardinality(calls) = MaxBatch
    /\ layers # Replay(base, calls)
    /\ \E b \in OpaqueBatches(layers) :
           Flagged(layers, b) /\ ~(b \in OpaqueBatches(base) /\ Flagged(base, b))

(***************************************************************************)
(* SpecSort: alpha-blended meshes at several distances on two layer keys,  *)
(* sorted for two viewers that look in opposite directions.                *)
(***************************************************************************)
\* The submissions a run of SpecSort keeps in the queue at a time.
MaxSortItems == 3

SortRoom == QueueSize(layers) < MaxSortItems

SortViewers == {Viewer(1, 0, 0), Viewer(-1, 1, 30)}

SortSubmitMesh ==
    \E k \in AllLayerKeys, box \in {Box(0, 0), Box(10, 9)}, t \in {5, 10, 20} :
        SortRoom /\ CallAddMesh(k, 3, MeshData(1, 1, 0), box, t) /\ UNCHANGED <<base, calls, drawer>>

SortSort == \E viewer \in SortViewers : CallSort(viewer) /\ UNCHANGED <<base, calls, drawer>>

SortClearFrame == ClearRoom /\ CallClear(FALSE) /\ UNCHANGED <<base, calls, drawer>>

NextSort ==
    \/ SortSubmitMesh
    \/ SortSort
    \/ SortClearFrame

SpecSort == InitQueue /\ [][NextSort]_vars

\* The sort keys of the layer's transparent list, in the order of the list.
TransparentKeys(layer, viewer) ==
    [j \in DOMAIN layer.transparentModels |->
        TransparentSortKey(layer, viewer, layer.transparentModels[j])]

IsPermutation(s, t) ==
    /\ Len(s) = Len(t)
    /\ \A x \in Range(s) \cup Range(t) :
           Cardinality({j \in DOMAIN s : s[j] = x}) = Cardinality({j \in DOMAIN t : t[j] = x})

\* C10: Sort leaves in each layer the transparent records it found, its
\* transparent list being the list it found in another order, with no sort
\* key smaller than the key that follows it.
C10_SortBackToFront ==
    [][ op'.name = "Sort" =>
            /\ DOMAIN layers' = DOMAIN layers
            /\ \A k \in DOMAIN layers' :
                   /\ layers'[k].transparentModelData = layers[k].transparentModelData
                   /\ IsPermutation(layers'[k].transparentModels, layers[k].transparentModels)
                   /\ LET keys == TransparentKeys(layers'[k], op'.viewer)
                      IN  \A j \in DOMAIN keys : \A l \in DOMAIN keys : j < l => keys[j] >= keys[l] ]_vars

\* C10 witness: meshes submitted at distances 10, 5 and 20 of the near plane
\* are listed, after Sort, at distances 20, 10 and 5.
C10_Witness ==
    /\ op.name = "Sort"
    /\ \E k \in DOMAIN layers :
           /\ [j \in DOMAIN layers[k].transparentModelData |->
                  TransparentSortKey(layers[k], op.viewer, j - 1)] = <<10, 5, 20>>
           /\ layers[k].transparentModels = <<2, 0, 1>>
           /\ TransparentKeys(layers[k], op.viewer) = <<20, 10, 5>>

\* The radius of the bounding sphere AddMesh stored, whose radius member holds
\* the squared radius of the box.
SphereRadius(sphere) == CHOOSE r \in 0..sphere.radius : r * r = sphere.radius

\* The signed distance from the near plane of the point of the entry's
\* bounding sphere nearest the viewer along the view axis.
NearestPointKey(layer, viewer, index) ==
    LET sphere == layer.transparentModelData[index + 1].squaredBoundingSphere
    IN  PlaneDistance(viewer.nearPlane, sphere.pos - viewer.forward * SphereRadius(sphere))

\* C11: after Sort, no entry of a transparent list is followed by an entry
\* whose bounding sphere's point nearest the viewer (centre minus forward
\* times radius) is farther from the near plane than its own.
C11_SortKeyIsNearestPoint ==
    [][ op'.name = "Sort" =>
            \A k \in DOMAIN layers' :
                LET list == layers'[k].transparentModels
                IN  \A j \in DOMAIN list : \A l \in DOMAIN list :
                        j < l => NearestPointKey(layers'[k], op'.viewer, list[j])
                                     >= NearestPointKey(layers'[k], op'.viewer, list[l]) ]_vars

\* Every transparent list is back to front for the viewer.
BackToFront(L, viewer) ==
    \A k \in DOMAIN L :
        LET keys == TransparentKeys(L[k], viewer)
        IN  \A j \in DOMAIN keys : \A l \in DOMAIN keys : j < l => keys[j] >= keys[l]

\* C12: an alpha-blended AddMesh that comes right after a Sort is rejected,
\* the queue staying as it was, or leaves every transparent list back to
\* front for the viewer of that Sort.
C12_NoUnsortedListAfterSort ==
    [][ (op.name = "Sort" /\ op'.name = "AddMesh" /\ IsBlendEnabled(op'.material)) =>
            (layers' = layers \/ BackToFront(layers', op.viewer)) ]_vars

\* C29 (checked in SpecSort): in every layer the transparent list holds each
\* index of the transparent data array, 0 to n - 1 for n records, exactly
\* once, whatever alpha-blended AddMesh calls, Sort calls and Clear calls
\* came before.
C29_TransparentListIsPermutation ==
    \A k \in DOMAIN layers :
        /\ Len(layers[k].transparentModels) = Len(layers[k].transparentModelData)
        /\ Range(layers[k].transparentModels) = 0 .. Len(layers[k].transparentModelData) - 1

\* C29 witness: a record was added to a layer whose list of two Sort had put
\* in the other order; the list is 1, 0, 2.
C29_Witness ==
    /\ op.name = "AddMesh"
    /\ op.renderOrder \in DOMAIN layers
    /\ layers[op.renderOrder].transparentModels = <<1, 0, 2>>

(***************************************************************************)
(* SpecBill: billboards of a depth-sorted material (2) and of a material   *)
(* that is not (1) on one layer key, added one by one and in pairs, and    *)
(* sorted for two eye positions.                                           *)
(***************************************************************************)
\* The billboards a run of SpecBill keeps in the queue at a time.
MaxBillboards == 4

BillRoom(count) == QueueSize(layers) + count <= MaxBillboards

BillViewers == {Viewer(1, 0, 0), Viewer(1, 0, 7)}

BillSubmitBillboard ==
    \E m \in {1, 2}, position \in {0, 5, 10} :
        BillRoom(1) /\ CallAddBillboard(1, m, position, <<1, 1>>, <<0, 1>>, White)
                    /\ UNCHANGED <<base, calls, drawer>>

\* A pair of billboards at 0 and 10, of sizes 2 and 3, through the overload
\* that takes a float size, an angle and an alpha.
BillSubmitBillboards ==
    \E m \in {1, 2} :
        BillRoom(2) /\ CallAddBillboardsAs("FloatAngleAlpha", 1, m, 2, <<0, 10>>, <<2, 3>>, NullPtr, NullPtr)
                    /\ UNCHANGED <<base, calls, drawer>>

BillSort == \E viewer \in BillViewers : CallSort(viewer) /\ UNCHANGED <<base, calls, drawer>>

BillClearFully == CallClear(TRUE) /\ UNCHANGED <<base, calls, drawer>>

BillReleaseMaterial == \E m \in {1, 2} : EmitMaterialRelease(m) /\ UNCHANGED <<base, calls, drawer>>

NextBill ==
    \/ BillSubmitBillboard
    \/ BillSubmitBillboards
    \/ BillSort
    \/ BillClearFully
    \/ BillReleaseMaterial

SpecBill == InitQueue /\ [][NextBill]_vars

\* The squared distances from the eye to the centres of the entries, in order.
BillboardDistances(entry, viewer) ==
    [j \in DOMAIN entry.billboards |->
        SquaredDistance(viewer.eyePosition, entry.billboards[j].center)]

\* C13: Sort leaves every billboard batch with the entries it found; the
\* batches of a material with depth sorting are left with no entry nearer
\* the eye than the entry that follows it, and the other batches in the
\* order Sort found them.
C13_SortBillboardsByDepth ==
    [][ op'.name = "Sort" =>
            /\ DOMAIN layers' = DOMAIN layers
            /\ \A k \in DOMAIN layers' :
                   /\ DOMAIN layers'[k].billboards = DOMAIN layers[k].billboards
                   /\ \A m \in DOMAIN layers'[k].billboards :
                          LET before == layers[k].billboards[m]
                              after  == layers'[k].billboards[m]
                              dist   == BillboardDistances(after, op'.viewer)
                          IN  /\ IsPermutation(after.billboards, before.billboards)
                              /\ after.materialReleaseSlot = before.materialReleaseSlot
                              /\ IF IsDepthSortingEnabled(m)
                                 THEN \A j \in DOMAIN dist : \A l \in DOMAIN dist :
                                          j < l => dist[j] >= dist[l]
                                 ELSE after.billboards = before.billboards ]_vars

\* C13 witness: after a Sort from the eye at 0, the pair added at 0 and 10
\* stands at 10 and 0 in the batch of the depth-sorted material and at 0 and
\* 10 in the batch of the other material.
C13_Witness ==
    /\ op.name = "Sort"
    /\ op.viewer.eyePosition = 0
    /\ 1 \in DOMAIN layers
    /\ {1, 2} \subseteq DOMAIN layers[1].billboards
    /\ [j \in DOMAIN layers[1].billboards[2].billboards |->
           <<layers[1].billboards[2].billboards[j].center, layers[1].billboards[2].billboards[j].size>>]
           = << <<10, <<3, 3>> >>, <<0, <<2, 2>> >> >>
    /\ [j \in DOMAIN layers[1].billboards[1].billboards |->
           <<layers[1].billboards[1].billboards[j].center, layers[1].billboards[1].billboards[j].size>>]
           = << <<0, <<2, 2>> >>, <<10, <<3, 3>> >> >>

(***************************************************************************)
(* SpecOrder: on one layer key, opaque and alpha-blended meshes at two     *)
(* places, sprite chains of two vertex arrays and two custom drawables, so *)
(* that the order of every list shows; sorted for two viewers.             *)
(***************************************************************************)
\* The submissions a run of SpecOrder keeps in the queue at a time.
MaxOrderItems == 4

OrderRoom == QueueSize(layers) < MaxOrderItems

OrderSubmitMesh ==
    \E m \in {1, 3}, t \in {5, 10} :
        OrderRoom /\ CallAddMesh(1, m, MeshData(1, 1, 0), Box(0, 0), t) /\ UNCHANGED <<base, calls, drawer>>

OrderSubmitSprites ==
    \E vertices \in {1, 2} :
        OrderRoom /\ CallAddSprites(1, 1, vertices, 1, Null) /\ UNCHANGED <<base, calls, drawer>>

OrderSubmitDrawable ==
    \E drawable \in {1, 2} :
        OrderRoom /\ CallAddDrawable(1, drawable) /\ UNCHANGED <<base, calls, drawer>>

OrderSort == \E viewer \in SortViewers : CallSort(viewer) /\ UNCHANGED <<base, calls, drawer>>

OrderClearFully == CallClear(TRUE) /\ UNCHANGED <<base, calls, drawer>>

NextOrder ==
    \/ OrderSubmitMesh
    \/ OrderSubmitSprites
    \/ OrderSubmitDrawable
    \/ OrderSort
    \/ OrderClearFully

SpecOrder == InitQueue /\ [][NextOrder]_vars

\* C14: Sort leaves the opaque-mesh batches, the sprite batches and the
\* custom-drawable list of every layer as it found them, content and order.
C14_SortKeepsOtherBatches ==
    [][ op'.name = "Sort" =>
            /\ DOMAIN layers' = DOMAIN layers
            /\ \A k \in DOMAIN layers' :
                   /\ layers'[k].opaqueModels = layers[k].opaqueModels
                   /\ layers'[k].basicSprites = layers[k].basicSprites
                   /\ layers'[k].otherDrawables = layers[k].otherDrawables ]_vars

\* C14 witness: a Sort has left two instances of an opaque mesh and two
\* custom drawables in an order that is not the order of their values.
C14_Witness ==
    /\ op.name = "Sort"
    /\ 1 \in DOMAIN layers
    /\ layers[1].otherDrawables = <<1, 2>>
    /\ 1 \in DOMAIN layers[1].opaqueModels
    /\ \E md \in DOMAIN layers[1].opaqueModels[1].meshMap :
           layers[1].opaqueModels[1].meshMap[md].instances = <<5, 10>>

\* The transparent lists and records of a layer key, empty when the registry
\* has no layer for it.
TransparentOf(L, renderOrder) ==
    IF renderOrder \in DOMAIN L
    THEN <<L[renderOrder].transparentModels, L[renderOrder].transparentModelData>>
    ELSE << <<>>, <<>> >>

OpaqueOf(L, renderOrder) ==
    IF renderOrder \in DOMAIN L THEN L[renderOrder].opaqueModels ELSE EmptyMap

\* C20: AddMesh with an alpha-blended material adds one record at the end
\* of the layer's transparent data and its index at the end of the
\* transparent list, whatever the records already there, and leaves the
\* opaque batches and the connected slots as they were; AddMesh with any
\* other material leaves the transparent list and data as they were.
C20_BlendedMeshIsStandalone ==
    [][ op'.name = "AddMesh" =>
            LET k      == op'.renderOrder
                before == TransparentOf(layers, k)
                after  == TransparentOf(layers', k)
            IN  IF IsBlendEnabled(op'.material)
                THEN /\ Len(after[2]) = Len(before[2]) + 1
                     /\ SubSeq(after[2], 1, Len(before[2])) = before[2]
                     /\ Last(after[2]).material = op'.material
                     /\ Last(after[2]).meshData = op'.meshData
                     /\ Last(after[2]).transformMatrix = op'.transformMatrix
                     /\ after[1] = Append(before[1], Len(before[2]))
                     /\ OpaqueOf(layers', k) = OpaqueOf(layers, k)
                     /\ AllSlots(layers') = AllSlots(layers)
                     /\ \A j \in DOMAIN layers : j # k => layers'[j] = layers[j]
                ELSE after = before ]_vars

\* C20 witness: an alpha-blended AddMesh has added a record equal to one the
\* layer already held, and the layer holds an opaque batch.
C20_Witness ==
    /\ op.name = "AddMesh"
    /\ IsBlendEnabled(op.material)
    /\ 1 \in DOMAIN layers
    /\ Len(layers[1].transparentModelData) = 2
    /\ layers[1].transparentModelData[1] = layers[1].transparentModelData[2]
    /\ DOMAIN layers[1].opaqueModels # {}

(***************************************************************************)
(* SpecReject: every Add* entry point on two layer keys, called with valid *)
(* arguments and with a null material or a null drawable, between          *)
(* Clear(false) calls that make the layers idle.                           *)
(***************************************************************************)
\* The submissions a run of SpecReject keeps in the queue at a time.
MaxRejectItems == 2

RejectRoom == QueueSize(layers) < MaxRejectItems

RejectSubmitMesh ==
    \E k \in AllLayerKeys, m \in {Null, 1, 3} :
        /\ m = Null \/ RejectRoom
        /\ CallAddMesh(k, m, MeshData(1, 1, 0), Box(0, 0), 0)
        /\ UNCHANGED <<base, calls, drawer>>

RejectSubmitSprites ==
    \E k \in AllLayerKeys, m \in {Null, 1} :
        /\ m = Null \/ RejectRoom
        /\ CallAddSprites(k, m, 1, 1, 1)
        /\ UNCHANGED <<base, calls, drawer>>

RejectSubmitBillboard ==
    \E k \in AllLayerKeys, m \in {Null, 1} :
        /\ m = Null \/ RejectRoom
        /\ CallAddBillboard(k, m, 0, <<1, 1>>, <<0, 1>>, White)
        /\ UNCHANGED <<base, calls, drawer>>

RejectSubmitBillboards ==
    \E overload \in AddBillboardsOverloads, k \in AllLayerKeys, m \in {Null, 1} :
        /\ m = Null \/ RejectRoom
        /\ CallAddBillboardsAs(overload, k, m, 1, <<0>>, <<1>>, NullPtr, NullPtr)
        /\ UNCHANGED <<base, calls, drawer>>

RejectSubmitDrawable ==
    \E k \in AllLayerKeys, drawable \in {Null, 1, 2} :
        /\ drawable = Null \/ RejectRoom
        /\ CallAddDrawable(k, drawable)
        /\ UNCHANGED <<base, calls, drawer>>

RejectClearFrame == ClearRoom /\ CallClear(FALSE) /\ UNCHANGED <<base, calls, drawer>>

RejectClearFully == CallClear(TRUE) /\ UNCHANGED <<base, calls, drawer>>

NextReject ==
    \/ RejectSubmitMesh
    \/ RejectSubmitSprites
    \/ RejectSubmitBillboard
    \/ RejectSubmitBillboards
    \/ RejectSubmitDrawable
    \/ RejectClearFrame
    \/ RejectClearFully

SpecReject == InitQueue /\ [][NextReject]_vars

\* The layer of a key, or the layer GetLayer would make for it.
LayerOrNew(L, renderOrder) == IF renderOrder \in DOMAIN L THEN L[renderOrder] ELSE NewLayer

\* C15: AddDrawable with a null drawable leaves the registry as it was (no
\* layer made, no clearCount reset, no list grown); with a drawable it
\* leaves the layer of its key with that drawable added at the end of
\* otherDrawables, and every other layer as it was.
C15_NullDrawableIsNoOp ==
    [][ op'.name = "AddDrawable" =>
            IF op'.drawable = Null
            THEN layers' = layers /\ idle' = idle
            ELSE /\ DOMAIN layers' = DOMAIN layers \cup {op'.renderOrder}
                 /\ \A k \in DOMAIN layers : k # op'.renderOrder => layers'[k] = layers[k]
                 /\ layers'[op'.renderOrder] =
                        [LayerOrNew(layers, op'.renderOrder) EXCEPT
                            !.clearCount = 0,
                            !.otherDrawables = Append(@, op'.drawable)] ]_vars

\* C15 witness: a null drawable was handed in for a layer key the registry
\* has no layer for, and it still has none; the other layer holds two
\* drawables in the order they were added.
C15_Witness ==
    /\ op.name = "AddDrawable"
    /\ op.drawable = Null
    /\ op.renderOrder = 2
    /\ DOMAIN layers = {1}
    /\ layers[1].otherDrawables = <<2, 1>>

\* C16: AddMesh, AddSprites, AddBillboard and every AddBillboards overload,
\* called with a null material, leave the registry as it was: no layer made,
\* no clearCount reset, no batch entry and no slot added.
C16_NullMaterialIsRejected ==
    [][ (op'.name \in {"AddMesh", "AddSprites", "AddBillboard", "AddBillboards"} /\ op'.material = Null) =>
            layers' = layers /\ idle' = idle ]_vars

\* C16 witness: AddBillboard was called with a null material for a layer
\* that had been through a Clear(false); the layer's clearCount has not been
\* reset and the other layer key still has no layer.
C16_Witness ==
    /\ op.name = "AddBillboard"
    /\ op.material = Null
    /\ op.wasIdle
    /\ layers[op.renderOrder].clearCount > 0
    /\ DOMAIN layers = {op.renderOrder}

(***************************************************************************)
(* SpecTex: sprite chains of two vertex arrays under two materials and     *)
(* three overlays (none, texture 1, texture 2) on two layer keys, beside   *)
(* an opaque mesh, an alpha-blended mesh, a billboard and a drawable; the  *)
(* two textures are released.                                              *)
(***************************************************************************)
\* The submissions a run of SpecTex keeps in the queue at a time.
MaxTexItems == 3

TexRoom == QueueSize(layers) < MaxTexItems

\* Material 2 has sprites on the first layer key only, and the chains of a
\* texture's bucket are all of the first vertex array.
TexSubmitSprites ==
    \E km \in {<<1, 1>>, <<1, 2>>, <<2, 1>>}, overlay \in {Null, 1, 2} :
        \E vertices \in IF overlay = Null THEN {1, 2} ELSE {1} :
            TexRoom /\ CallAddSprites(km[1], km[2], vertices, 1, overlay) /\ UNCHANGED <<base, calls, drawer>>

TexSubmitMesh ==
    \E m \in {1, 3} :
        TexRoom /\ CallAddMesh(1, m, MeshData(1, 1, 0), Box(0, 0), 0) /\ UNCHANGED <<base, calls, drawer>>

TexSubmitBillboard ==
    TexRoom /\ CallAddBillboard(1, 1, 0, <<1, 1>>, <<0, 1>>, White) /\ UNCHANGED <<base, calls, drawer>>

TexSubmitDrawable == TexRoom /\ CallAddDrawable(1, 1) /\ UNCHANGED <<base, calls, drawer>>

TexReleaseTexture == \E texture \in {1, 2} : EmitTextureRelease(texture) /\ UNCHANGED <<base, calls, drawer>>

TexClearFully == CallClear(TRUE) /\ UNCHANGED <<base, calls, drawer>>

NextTex ==
    \/ TexSubmitSprites
    \/ TexSubmitMesh
    \/ TexSubmitBillboard
    \/ TexSubmitDrawable
    \/ TexReleaseTexture
    \/ TexClearFully

SpecTex == InitQueue /\ [][NextTex]_vars

\* C17: when the release of a texture is handled, every layer is left as it
\* was but for the overlay buckets of its sprite batches: each sprite batch
\* keeps its buckets of the other overlays, the null overlay included, with
\* their chains, and has no bucket of the released texture.
C17_TextureReleaseRemovesItsBucket ==
    [][ (op'.name = "TextureRelease" /\ op'.handled) =>
            /\ DOMAIN layers' = DOMAIN layers
            /\ \A k \in DOMAIN layers :
                   layers'[k] = [layers[k] EXCEPT !.basicSprites =
                       [m \in DOMAIN @ |-> [@[m] EXCEPT !.overlayMap =
                           [t \in DOMAIN @ \ {op'.texture} |-> @[t]]]]] ]_vars

\* C17 witness: texture 1 was released while a sprite batch held buckets of
\* it, of texture 2 and of no overlay; the batch now holds the last two.
C17_Witness ==
    /\ op.name = "TextureRelease"
    /\ op.texture = 1
    /\ op.handled
    /\ \E k \in DOMAIN layers : \E m \in DOMAIN layers[k].basicSprites :
           /\ DOMAIN layers[k].basicSprites[m].overlayMap = {Null, 2}
           /\ Len(layers[k].basicSprites[m].overlayMap[Null].spriteChains) = 1
           /\ Len(layers[k].basicSprites[m].overlayMap[2].spriteChains) = 1

(***************************************************************************)
(* SpecBuf: opaque meshes of four mesh handles under two materials on two  *)
(* layer keys, beside a sprite chain with an overlay, a billboard and an   *)
(* alpha-blended mesh; every buffer, material and texture is released.     *)
(* Index buffers 1 and 2 are ranges of one Buffer.                         *)
(***************************************************************************)
BufMeshes == {MeshData(Null, 1, 0), MeshData(1, 2, 0), MeshData(2, 2, 0), MeshData(3, 1, 0)}

\* The submissions a run of SpecBuf keeps in the queue at a time.
MaxBufItems == 3

BufRoom == QueueSize(layers) < MaxBufItems

\* Every mesh handle under material 1 on the first layer key; one mesh
\* handle under material 2 there and one under material 1 on the second
\* layer key.
BufSubmitMesh ==
    \E kmd \in    {<<1, 1, md>> : md \in BufMeshes}
               \cup {<<1, 2, MeshData(Null, 1, 0)>>, <<2, 1, MeshData(1, 2, 0)>>} :
        BufRoom /\ CallAddMesh(kmd[1], kmd[2], kmd[3], Box(0, 0), 0) /\ UNCHANGED <<base, calls, drawer>>

BufSubmitTransparentMesh ==
    BufRoom /\ CallAddMesh(1, 3, MeshData(1, 2, 0), Box(0, 0), 0) /\ UNCHANGED <<base, calls, drawer>>

BufSubmitSprites ==
    \E overlay \in {Null, 1} :
        BufRoom /\ CallAddSprites(1, 1, 1, 1, overlay) /\ UNCHANGED <<base, calls, drawer>>

BufSubmitBillboard ==
    BufRoom /\ CallAddBillboard(1, 1, 0, <<1, 1>>, <<0, 1>>, White) /\ UNCHANGED <<base, calls, drawer>>

BufClearFully == CallClear(TRUE) /\ UNCHANGED <<base, calls, drawer>>

BufReleaseIndexBuffer == \E ib \in {1, 2, 3} : EmitIndexBufferRelease(ib) /\ UNCHANGED <<base, calls, drawer>>

BufReleaseVertexBuffer == \E vb \in {1, 2} : EmitVertexBufferRelease(vb) /\ UNCHANGED <<base, calls, drawer>>

BufReleaseMaterial == \E m \in {1, 2} : EmitMaterialRelease(m) /\ UNCHANGED <<base, calls, drawer>>

BufReleaseTexture == EmitTextureRelease(1) /\ UNCHANGED <<base, calls, drawer>>

NextBuf ==
    \/ BufSubmitMesh
    \/ BufSubmitTransparentMesh
    \/ BufSubmitSprites
    \/ BufSubmitBillboard
    \/ BufClearFully
    \/ BufReleaseIndexBuffer
    \/ BufReleaseVertexBuffer
    \/ BufReleaseMaterial
    \/ BufReleaseTexture

SpecBuf == InitQueue /\ [][NextBuf]_vars

\* The mesh handle names the buffer the release in o is about.
ReferencesReleased(meshData, o) ==
    \/ o.name = "IndexBufferRelease" /\ meshData.indexBuffer = o.indexBuffer
    \/ o.name = "VertexBufferRelease" /\ meshData.vertexBuffer = o.vertexBuffer

\* C18: when the release of an index or vertex buffer is handled, every
\* layer keeps its opaque material entries, and each of them keeps, as they
\* were, exactly the mesh entries whose mesh handle does not name the
\* released buffer, be it none.
C18_BufferReleaseRemovesItsMeshes ==
    [][ (op'.name \in {"IndexBufferRelease", "VertexBufferRelease"} /\ op'.handled) =>
            /\ DOMAIN layers' = DOMAIN layers
            /\ \A k \in DOMAIN layers :
                   /\ DOMAIN layers'[k].opaqueModels = DOMAIN layers[k].opaqueModels
                   /\ \A m \in DOMAIN layers[k].opaqueModels :
                          LET before == layers[k].opaqueModels[m].meshMap
                              after  == layers'[k].opaqueModels[m].meshMap
                          IN  /\ DOMAIN after = {d \in DOMAIN before : ~ReferencesReleased(d, op')}
                              /\ \A d \in DOMAIN after : after[d] = before[d] ]_vars

\* C18 witness: vertex buffer 1 was released while a material held a mesh
\* entry of it and another held nothing else; the first material keeps its
\* mesh entry of vertex buffer 2, the second stays with an empty mesh map.
C18_Witness ==
    /\ op.name = "VertexBufferRelease"
    /\ op.vertexBuffer = 1
    /\ op.handled
    /\ 1 \in DOMAIN layers
    /\ {1, 2} \subseteq DOMAIN layers[1].opaqueModels
    /\ \E d \in DOMAIN layers[1].opaqueModels[1].meshMap : d.vertexBuffer = 2
    /\ DOMAIN layers[1].opaqueModels[2].meshMap = {}

\* C19: every batch bucket holds the slots of its own key and no other:
\* a material entry a slot on its material, a mesh entry a slot on the
\* vertex buffer of its mesh handle and one on its index buffer when the
\* handle has one, an overlay bucket a slot on its texture when it has one.
C19_SlotsAreThoseOfTheBuckets ==
    \A k \in DOMAIN layers :
        /\ \A m \in DOMAIN layers[k].opaqueModels :
               /\ layers[k].opaqueModels[m].materialReleaseSlot = m
               /\ \A d \in DOMAIN layers[k].opaqueModels[m].meshMap :
                      /\ layers[k].opaqueModels[m].meshMap[d].indexBufferReleaseSlot = d.indexBuffer
                      /\ layers[k].opaqueModels[m].meshMap[d].vertexBufferReleaseSlot = d.vertexBuffer
        /\ \A m \in DOMAIN layers[k].basicSprites :
               /\ layers[k].basicSprites[m].materialReleaseSlot = m
               /\ \A t \in DOMAIN layers[k].basicSprites[m].overlayMap :
                      layers[k].basicSprites[m].overlayMap[t].textureReleaseSlot = t
        /\ \A m \in DOMAIN layers[k].billboards :
               layers[k].billboards[m].materialReleaseSlot = m

\* C19 witness: after the release of a vertex buffer was handled, the queue
\* holds a mesh entry with an index buffer and an overlay bucket with a
\* texture, and is connected to their material, buffers and texture.
C19_Witness ==
    /\ op.name = "VertexBufferRelease"
    /\ op.handled
    /\ AllSlots(layers) = {<<"OnMaterialRelease", 1>>, <<"OnIndexBufferRelease", 1>>,
                           <<"OnVertexBufferRelease", 2>>, <<"OnTextureRelease", 1>>}

(***************************************************************************)
(* SpecComp: the comparators applied to material handles and mesh handles  *)
(* drawn from small sets. A step compares three handles both ways and      *)
(* looks the second one up in a map that holds the first.                  *)
(***************************************************************************)
\* Material handles: 2, 4 and 5 have the same shader, shader instance and
\* diffuse map; 3 differs from them by its diffuse map, 1 by its shader.
CompMaterials == 1 .. 5

\* Mesh handles: index buffers 1 and 2 are two IndexBuffer objects over one
\* Buffer, 3 has a Buffer of its own, Null is the mesh without indices.
CompMeshes ==
    {MeshData(ib, vb, mode) : ib \in {Null, 1, 2, 3}, vb \in {1, 2}, mode \in {0, 1}}

MaterialComparators == {"Billboard", "Model", "Sprite"}

MaterialLess(comparator, mat1, mat2) ==
    CASE comparator = "Billboard" -> BatchedBillboardComparator(mat1, mat2)
      [] comparator = "Model" -> BatchedModelMaterialComparator(mat1, mat2)
      [] OTHER -> BatchedSpriteMaterialComparator(mat1, mat2)

\* What a step of SpecComp records of three keys a, b, c under Less.
Comparison(name, comparator, a, b, c, Less(_, _)) ==
    [name |-> name, comparator |-> comparator, a |-> a, b |-> b, c |-> c,
     aa |-> Less(a, a), ab |-> Less(a, b), ba |-> Less(b, a),
     bc |-> Less(b, c), ac |-> Less(a, c),
     shared |-> MapFind([key \in {a} |-> 0], b, Less) # {}]

\* The handles to compare are drawn at the start; the queue stays empty.
InitComp ==
    /\ layers = EmptyMap
    /\ idle = [k \in AllLayerKeys |-> 0]
    /\ base = EmptyMap
    /\ calls = EmptyBag
    /\ drawer = NoDrawer
    /\ \/ \E comparator \in MaterialComparators, a \in CompMaterials, b \in CompMaterials, c \in CompMaterials :
              op = [name |-> "Materials", comparator |-> comparator, a |-> a, b |-> b, c |-> c]
       \/ \E a \in CompMeshes, b \in CompMeshes, c \in CompMeshes :
              op = [name |-> "Meshes", comparator |-> "Mesh", a |-> a, b |-> b, c |-> c]

CompareMaterials ==
    /\ op.name = "Materials"
    /\ op' = Comparison("CompareMaterials", op.comparator, op.a, op.b, op.c,
                        LAMBDA x, y : MaterialLess(op.comparator, x, y))
    /\ UNCHANGED <<layers, idle, base, calls, drawer>>

CompareMeshes ==
    /\ op.name = "Meshes"
    /\ op' = Comparison("CompareMeshes", op.comparator, op.a, op.b, op.c, MeshDataComparator)
    /\ UNCHANGED <<layers, idle, base, calls, drawer>>

NextComp ==
    \/ CompareMaterials
    \/ CompareMeshes

SpecComp == InitComp /\ [][NextComp]_vars

\* The attributes a material comparator reads, in the order it reads them.
MaterialSortKey(comparator, material) ==
    <<GetShader(material), GetShaderInstance(material, comparator = "Billboard"),
      GetDiffuseMap(material), material>>

RECURSIVE LexLess(_, _)
LexLess(s, t) ==
    IF s = <<>> \/ t = <<>> THEN FALSE
    ELSE IF Head(s) # Head(t) THEN Head(s) < Head(t)
    ELSE LexLess(Tail(s), Tail(t))

\* A recorded comparison is that of a strict total order.
IsStrictTotalOrder(o) ==
    /\ ~o.aa
    /\ ~(o.ab /\ o.ba)
    /\ (o.ab /\ o.bc) => o.ac
    /\ o.a # o.b => (o.ab \/ o.ba)

\* C21: each of the three material comparators is a strict total order on
\* material handles, comparing shader, then shader instance, then diffuse
\* map, then the handle itself; so a map ordered by it holds two distinct
\* materials under two entries, never one.
C21_MaterialComparatorsAreTotal ==
    op.name = "CompareMaterials" =>
        /\ IsStrictTotalOrder(op)
        /\ op.ab = LexLess(MaterialSortKey(op.comparator, op.a), MaterialSortKey(op.comparator, op.b))
        /\ op.shared <=> op.a = op.b

\* C21 witness: two distinct materials with the same shader, shader instance
\* and diffuse map, told apart by their handles alone.
C21_Witness ==
    /\ op.name = "CompareMaterials"
    /\ op.a # op.b
    /\ Front(MaterialSortKey(op.comparator, op.a)) = Front(MaterialSortKey(op.comparator, op.b))
    /\ op.ab
    /\ ~op.shared

\* C22, as claimed: the mesh comparator is a strict total order on mesh
\* handles, by index buffer (null lowest), then vertex buffer, then
\* primitive mode; so two mesh handles fall under the same mesh entry exactly
\* when they have the same index buffer, the same vertex buffer and the same
\* primitive mode.
C22_MeshComparatorIsTotal ==
    op.name = "CompareMeshes" =>
        /\ IsStrictTotalOrder(op)
        /\ op.ab = LexLess(<<op.a.indexBuffer, op.a.vertexBuffer, op.a.primitiveMode>>,
                           <<op.b.indexBuffer, op.b.vertexBuffer, op.b.primitiveMode>>)
        /\ op.shared <=> op.a = op.b

(***************************************************************************)
(* What submissions leave of the layers they find (checked in SpecTex).    *)
(***************************************************************************)
IsPrefix(s, t) == Len(s) <= Len(t) /\ SubSeq(t, 1, Len(s)) = s

\* Every batch, entry and element of layer `old` is in layer `new`, in its
\* place.
LayerKept(old, new) ==
    /\ IsPrefix(old.otherDrawables, new.otherDrawables)
    /\ IsPrefix(old.transparentModelData, new.transparentModelData)
    /\ DOMAIN old.opaqueModels \subseteq DOMAIN new.opaqueModels
    /\ \A m \in DOMAIN old.opaqueModels :
           /\ DOMAIN old.opaqueModels[m].meshMap \subseteq DOMAIN new.opaqueModels[m].meshMap
           /\ \A d \in DOMAIN old.opaqueModels[m].meshMap :
                  IsPrefix(old.opaqueModels[m].meshMap[d].instances,
                           new.opaqueModels[m].meshMap[d].instances)
    /\ DOMAIN old.basicSprites \subseteq DOMAIN new.basicSprites
    /\ \A m \in DOMAIN old.basicSprites :
           /\ DOMAIN old.basicSprites[m].overlayMap \subseteq DOMAIN new.basicSprites[m].overlayMap
           /\ \A t \in DOMAIN old.basicSprites[m].overlayMap :
                  IsPrefix(old.basicSprites[m].overlayMap[t].spriteChains,
                           new.basicSprites[m].overlayMap[t].spriteChains)
    /\ DOMAIN old.billboards \subseteq DOMAIN new.billboards
    /\ \A m \in DOMAIN old.billboards :
           IsPrefix(old.billboards[m].billboards, new.billboards[m].billboards)

\* The number of elements an accepted submission adds.
SubmittedCount(o) == IF o.name = "AddBillboards" THEN o.count ELSE 1

ResourceKeys(layer) ==
         {<<"opaqueModels", m>> : m \in DOMAIN layer.opaqueModels}
    \cup UNION {{<<"meshMap", m, d>> : d \in DOMAIN layer.opaqueModels[m].meshMap} :
                    m \in DOMAIN layer.opaqueModels}
    \cup {<<"basicSprites", m>> : m \in DOMAIN layer.basicSprites}
    \cup UNION {{<<"overlayMap", m, t>> : t \in DOMAIN layer.basicSprites[m].overlayMap} :
                    m \in DOMAIN layer.basicSprites}
    \cup {<<"billboards", m>> : m \in DOMAIN layer.billboards}

\* The keys a call submits to the layer of its renderOrder.
SubmittedKeys(o) ==
    IF ~IsAcceptedSubmission(o) THEN {}
    ELSE CASE o.name = "AddMesh" /\ ~IsBlendEnabled(o.material) ->
                  {<<"opaqueModels", o.material>>, <<"meshMap", o.material, o.meshData>>}
           [] o.name = "AddSprites" ->
                  {<<"basicSprites", o.material>>, <<"overlayMap", o.material, o.overlay>>}
           [] o.name \in {"AddBillboard", "AddBillboards"} -> {<<"billboards", o.material>>}
           [] OTHER -> {}

\* C24: a material, a mesh handle's buffers or a texture becomes a key of a
\* layer's batch maps only by an Add* call that submits it to that layer's
\* key: a key that a layer holds after a step and did not hold before it (a
\* layer made by the step held none) is one the step's call submitted to that
\* layer. So every key of a layer was submitted to it since it was created.
C24_KeysComeFromSubmissions ==
    [][ \A k \in DOMAIN layers' :
            ResourceKeys(layers'[k]) \ ResourceKeys(LayerOrNew(layers, k))
                \subseteq (IF IsAcceptedSubmission(op') /\ op'.renderOrder = k
                           THEN SubmittedKeys(op') ELSE {}) ]_vars

\* C24 witness: an opaque mesh has just made the layer of the second key
\* while the first layer batches sprites; the new layer has the mesh's
\* material and mesh handle for keys and none of the first layer's.
C24_Witness ==
    /\ op.name = "AddMesh"
    /\ op.renderOrder = 2
    /\ ~op.wasIdle
    /\ DOMAIN layers = {1, 2}
    /\ ResourceKeys(layers[2]) = SubmittedKeys(op)
    /\ layers[1].basicSprites # EmptyMap
    /\ LayerSize(layers[2]) = 1

(***************************************************************************)
(* The sprite buckets (checked in SpecTex).                                *)
(***************************************************************************)
\* The buckets of the registry, as <<layer key, material, overlay>>.
SpriteBuckets(L) ==
    UNION {UNION {{<<k, m, t>> : t \in DOMAIN L[k].basicSprites[m].overlayMap} :
                      m \in DOMAIN L[k].basicSprites} : k \in DOMAIN L}

SpriteBucket(L, b) == L[b[1]].basicSprites[b[2]].overlayMap[b[3]]

\* The chains of a bucket, none when the registry has no such bucket.
SpriteChainsOf(L, b) == IF b \in SpriteBuckets(L) THEN SpriteBucket(L, b).spriteChains ELSE <<>>

\* C25: an accepted AddSprites leaves the bucket of its layer key, material
\* and overlay, made with its material entry if it was absent, with the
\* chains it had and then the submitted chain (vertices and sprite count),
\* one chain more; a bucket is subscribed to the release of its overlay, a
\* bucket of the null overlay to none; every other bucket and everything
\* else in the registry are as they were.
C25_AddSpritesAppendsToItsBucket ==
    [][ (op'.name = "AddSprites" /\ op'.material # Null) =>
            LET b  == <<op'.renderOrder, op'.material, op'.overlay>>
                L0 == GetLayer(layers, op'.renderOrder)
            IN  /\ SpriteBuckets(layers') = SpriteBuckets(layers) \cup {b}
                /\ SpriteChainsOf(layers', b) =
                       Append(SpriteChainsOf(layers, b),
                              [vertices |-> op'.vertices, spriteCount |-> op'.spriteCount])
                /\ SpriteBucket(layers', b).textureReleaseSlot = op'.overlay
                /\ TextureSlots(layers') = TextureSlots(layers) \cup ({op'.overlay} \ {Null})
                /\ \A c \in SpriteBuckets(layers) \ {b} : SpriteBucket(layers', c) = SpriteBucket(layers, c)
                /\ DOMAIN layers' = DOMAIN L0
                /\ \A k \in DOMAIN L0 :
                       /\ [layers'[k] EXCEPT !.basicSprites = EmptyMap] = [L0[k] EXCEPT !.basicSprites = EmptyMap]
                       /\ DOMAIN layers'[k].basicSprites =
                              DOMAIN L0[k].basicSprites \cup (IF k = b[1] THEN {b[2]} ELSE {}) ]_vars

\* C25 witness: a second chain, of another vertex array, went to a
\* material's bucket of the null overlay after the one it held, while the
\* material has a bucket of texture 1 as well.
C25_Witness ==
    /\ op.name = "AddSprites"
    /\ op.overlay = Null
    /\ op.renderOrder \in DOMAIN layers
    /\ op.material \in DOMAIN layers[op.renderOrder].basicSprites
    /\ LET overlayMap == layers[op.renderOrder].basicSprites[op.material].overlayMap
       IN  /\ DOMAIN overlayMap = {Null, 1}
           /\ Len(overlayMap[Null].spriteChains) = 2
           /\ overlayMap[Null].spriteChains[1].vertices # overlayMap[Null].spriteChains[2].vertices
           /\ overlayMap[Null].textureReleaseSlot = Null
           /\ overlayMap[1].textureReleaseSlot = 1

(***************************************************************************)
(* SpecOver: every overload of AddBillboards, with and without a rotation  *)
(* array and a tint array, on one layer key and one material.              *)
(***************************************************************************)
\* The billboards a run of SpecOver has in the queue before a call.
MaxOverBillboards == 1

OverRoom == QueueSize(layers) <= MaxOverBillboards

\* The arrays a caller passes: positions, sizes (Vector2f or float),
\* rotations (sinCos pairs or angles in degrees) and tints (colours or
\* alphas in thousandths), two elements each.
OverSizes(overload) ==
    IF overload \in {"SinCosColor", "SinCosAlpha", "AngleColor", "AngleAlpha"}
    THEN <<<<2, 3>>, <<4, 5>>>> ELSE <<2, 3>>

OverRotation(overload) ==
    IF overload \in {"SinCosColor", "SinCosAlpha", "FloatSinCosColor", "FloatSinCosAlpha"}
    THEN <<<<1, 0>>, <<0, -1>>>> ELSE <<90, 180>>

OverTints(overload) ==
    IF overload \in {"SinCosColor", "AngleColor", "FloatSinCosColor", "FloatAngleColor"}
    THEN {<<<<10, 20, 30, 40>>, <<255, 0, 0, 255>>>>}
    ELSE {<<0, 500>>, <<1000, 250>>, <<996, 2>>}

\* A null pointer stands for an array that is not given.
OverSubmitBillboards ==
    \E overload \in AddBillboardsOverloads, count \in {1, 2}, rotated \in BOOLEAN, tinted \in BOOLEAN :
        \E tint \in OverTints(overload) :
            /\ OverRoom
            /\ CallAddBillboardsAs(overload, 1, 1, count, <<0, 10>>, OverSizes(overload),
                                   IF rotated THEN OverRotation(overload) ELSE NullPtr,
                                   IF tinted THEN tint ELSE NullPtr)
            /\ UNCHANGED <<base, calls, drawer>>

OverClearFully == CallClear(TRUE) /\ UNCHANGED <<base, calls, drawer>>

NextOver ==
    \/ OverSubmitBillboards
    \/ OverClearFully

SpecOver == InitQueue /\ [][NextOver]_vars

\* The entries the last AddBillboards call wrote: the last op.count of its
\* material's billboards.
WrittenBillboards(L, o) ==
    LET vec == L[o.renderOrder].billboards[o.material].billboards
    IN  [i \in 1 .. o.count |-> vec[Len(vec) - o.count + i]]

IsAlphaOverload(overload) ==
    overload \in {"SinCosAlpha", "AngleAlpha", "FloatSinCosAlpha", "FloatAngleAlpha"}

\* C26: whichever overload of AddBillboards is called, every billboard it
\* writes has sin 0 and cos 1 when no rotation array was given, and the
\* colour (255, 255, 255, 255), opaque white, when no colour or alpha array
\* was given.
C26_NullArraysGiveDefaults ==
    [][ op'.name = "AddBillboards" =>
            \A i \in 1 .. op'.count :
                /\ op'.rotationPtr = NullPtr => WrittenBillboards(layers', op')[i].sinCos = <<0, 1>>
                /\ op'.tintPtr = NullPtr => WrittenBillboards(layers', op')[i].color = <<255, 255, 255, 255>> ]_vars

\* C26 witness: the overload of float sizes, angles and alphas wrote two
\* billboards with neither angles nor alphas given, after a billboard that
\* has a rotation and a colour of its own.
C26_Witness ==
    /\ op.name = "AddBillboards"
    /\ op.overload = "FloatAngleAlpha"
    /\ op.count = 2
    /\ op.rotationPtr = NullPtr
    /\ op.tintPtr = NullPtr
    /\ LET vec == layers[1].billboards[1].billboards
       IN  /\ Len(vec) = 3
           /\ vec[1].sinCos = <<1, 0>>
           /\ vec[1].color = <<10, 20, 30, 40>>
           /\ vec[3].sinCos = <<0, 1>>
           /\ vec[3].color = <<255, 255, 255, 255>>

\* 255 times an alpha in thousandths, rounded to the nearest integer.
RoundedAlpha(alpha) == (2 * 255 * alpha + AlphaUnit) \div (2 * AlphaUnit)

\* C27, as claimed: an overload that takes alphas writes, for an alpha a
\* between 0 and 1, the colour (255, 255, 255, round(255 a)), 255 a rounded
\* to the nearest integer.
C27_AlphaIsRounded ==
    [][ (op'.name = "AddBillboards" /\ IsAlphaOverload(op'.overload) /\ op'.tintPtr # NullPtr) =>
            \A i \in 1 .. op'.count :
                WrittenBillboards(layers', op')[i].color = <<255, 255, 255, RoundedAlpha(op'.tintPtr[i])>> ]_vars

(***************************************************************************)
(* SpecAppend: billboards one at a time and by arrays of zero, one or two, *)
(* under two materials on two layer keys, beside a sprite chain, with      *)
(* Clear(false) and Clear(true) in between.                                *)
(***************************************************************************)
\* The elements a run of SpecAppend keeps in the queue at a time.
MaxAppendItems == 3

AppendRoom(count) == QueueSize(layers) + count <= MaxAppendItems

\* The second layer key is submitted single billboards only.
AppendSubmitBillboard ==
    \E k \in AllLayerKeys :
        /\ AppendRoom(1)
        /\ CallAddBillboard(k, 1, 5, <<1, 1>>, <<0, 1>>, White)
        /\ UNCHANGED <<base, calls, drawer>>

\* Arrays of two distinct elements each; a call takes the first count.
AppendSubmitBillboards ==
    \E m \in {1, 2}, count \in {0, 1, 2} :
        /\ AppendRoom(count)
        /\ \/ CallAddBillboardsAs("SinCosColor", 1, m, count, <<10, 20>>, <<<<2, 3>>, <<4, 5>>>>,
                                  <<<<1, 0>>, <<0, -1>>>>, <<<<10, 20, 30, 40>>, <<255, 0, 0, 255>>>>)
           \/ CallAddBillboardsAs("FloatAngleAlpha", 1, m, count, <<10, 20>>, <<2, 3>>,
                                  <<90, 180>>, NullPtr)
        /\ UNCHANGED <<base, calls, drawer>>

AppendSubmitSprites ==
    AppendRoom(1) /\ CallAddSprites(1, 1, 1, 1, Null) /\ UNCHANGED <<base, calls, drawer>>

AppendClearFrame == ClearRoom /\ CallClear(FALSE) /\ UNCHANGED <<base, calls, drawer>>

AppendClearFully == CallClear(TRUE) /\ UNCHANGED <<base, calls, drawer>>

NextAppend ==
    \/ AppendSubmitBillboard
    \/ AppendSubmitBillboards
    \/ AppendSubmitSprites
    \/ AppendClearFrame
    \/ AppendClearFully

SpecAppend == InitQueue /\ [][NextAppend]_vars

\* The billboards of a material in a layer, none when it has no batch there.
BillboardsOf(L, renderOrder, material) ==
    IF renderOrder \in DOMAIN L /\ material \in DOMAIN L[renderOrder].billboards
    THEN L[renderOrder].billboards[material].billboards ELSE <<>>

\* What a call hands over for its i-th billboard: its centre and size, and
\* its sinCos and colour where the call takes them as such.
HandedOver(o, i, data) ==
    CASE o.name = "AddBillboard" ->
             data = [color |-> o.color, center |-> o.position, size |-> o.size, sinCos |-> o.sinCos]
      [] o.overload = "SinCosColor" ->
             data = [color |-> o.tintPtr[i], center |-> o.positionPtr[i],
                     size |-> o.sizePtr[i], sinCos |-> o.rotationPtr[i]]
      [] OTHER ->
             data.center = o.positionPtr[i] /\ data.size = <<o.sizePtr[i], o.sizePtr[i]>>

\* C31: an accepted AddBillboard leaves the billboards of its material in its
\* layer as they were followed by the one it was handed, and an accepted
\* AddBillboards with count n leaves them followed by the n it was handed,
\* in the order of the arrays; the material's other batches, the batches of
\* other materials and the other layers are as they were. With n = 0 the
\* layer and the material's billboard batch are there all the same, the
\* batch subscribed to the material's release and the layer's clearCount 0.
C31_BillboardsAreAppended ==
    [][ (op'.name \in {"AddBillboard", "AddBillboards"} /\ op'.material # Null) =>
            LET k   == op'.renderOrder
                m   == op'.material
                n   == IF op'.name = "AddBillboard" THEN 1 ELSE op'.count
                old == BillboardsOf(layers, k, m)
                new == BillboardsOf(layers', k, m)
                was == LayerOrNew(layers, k)
            IN  /\ DOMAIN layers' = DOMAIN layers \cup {k}
                /\ \A j \in DOMAIN layers' \ {k} : layers'[j] = layers[j]
                /\ layers'[k].clearCount = 0
                /\ DOMAIN layers'[k].billboards = DOMAIN was.billboards \cup {m}
                /\ layers'[k].billboards[m].materialReleaseSlot = m
                /\ Len(new) = Len(old) + n
                /\ SubSeq(new, 1, Len(old)) = old
                /\ \A i \in 1 .. n : HandedOver(op', i, new[Len(old) + i])
                /\ \A m2 \in DOMAIN was.billboards \ {m} : layers'[k].billboards[m2] = was.billboards[m2]
                /\ [layers'[k] EXCEPT !.billboards = EmptyMap, !.clearCount = 0]
                       = [was EXCEPT !.billboards = EmptyMap, !.clearCount = 0] ]_vars

\* C31 witness: an AddBillboards of count 0 found its layer idle and made
\* the billboard batch of material 2 there, empty and subscribed, beside the
\* batch of material 1, which holds a single billboard followed by the two
\* of an array, and beside the material's sprite batch.
C31_Witness ==
    /\ op.name = "AddBillboards"
    /\ op.count = 0
    /\ op.material = 2
    /\ op.wasIdle
    /\ op.renderOrder \in DOMAIN layers
    /\ LET layer == layers[op.renderOrder]
       IN  /\ layer.clearCount = 0
           /\ DOMAIN layer.billboards = {1, 2}
           /\ layer.billboards[2] = NewBatchedBillboardEntry(2)
           /\ Len(layer.billboards[1].billboards) = 3
           /\ layer.billboards[1].billboards[1].center = 5
           /\ layer.billboards[1].billboards[2].center = 10
           /\ layer.billboards[1].billboards[3].center = 20

(***************************************************************************)
(* Nz::SimpleTextDrawer (src/src/Nazara/Utility/SimpleTextDrawer.cpp).      *)
(*                                                                         *)
(* `drawer` is a record of the drawer's members, under their names, with   *)
(* two additions: m_fontSlots, the font the four NazaraSlot members are    *)
(* connected to (Null when disconnected), and `terminated`, set when the   *)
(* process has died in a null dereference.  The record also carries what   *)
(* the drawer reads from its environment: glyphCache, the generation of    *)
(* each font's glyph cache, which Font changes when it clears the cache.   *)
(* A text is a sequence of code points; lengths are integers, chosen so    *)
(* that the 10% of faux bold is exact.  The colour stays the constructor's *)
(* white: SetColor is left out of the calls made.                          *)
(***************************************************************************)

\* The fonts a drawer is given; Font::GetDefault() is font 1.
Fonts == {1, 2}

FontGetDefault == 1

\* Font::IsValid: both fonts have a loaded face.
FontIsValid(font) == font \in Fonts

TextStyle_Regular == 0

TextStyle_Bold == 1

TextStyle_Italic == 2

\* The style is a bit field; only these two bits are drawn from.
HasStyle(style, bit) == (style \div bit) % 2 = 1

\* m_characterSize(24) of the default constructor.
DefaultCharacterSize == 24

\* Font::GetSizeInfo(characterSize): line height and advance of a space.
FontGetSizeInfo(font, characterSize) ==
    [lineHeight   |-> (28 + 2 * font) * characterSize,
     spaceAdvance |-> 5 * characterSize]

\* Font::GetKerning(characterSize, first, second): both fonts pull 'b'
\* (98) towards a preceding 'a' (97); font 2 also pushes 'a' after 'b'.
FontGetKerning(font, characterSize, first, second) ==
    IF first = 97 /\ second = 98 THEN 0 - characterSize
    ELSE IF font = 2 /\ first = 98 /\ second = 97 THEN characterSize
    ELSE 0

\* Font::GetGlyph(characterSize, style, character) at generation `cache` of
\* the font's glyph cache.  '?' (63) fails to load.  Font 1 has no bold
\* face and asks for faux bold; font 2 has one, with a wider advance.
\* Neither has an italic face.  The place in the atlas changes when the
\* cache is cleared and filled again.
FontGetGlyph(font, cache, characterSize, style, character) ==
    LET bold == HasStyle(style, TextStyle_Bold)
        wide == IF character = 98 THEN 2 ELSE 0
    IN  [valid            |-> character # 63,
         layerIndex       |-> 0,
         atlasRect        |-> <<font, cache, characterSize, character,
                                IF bold /\ font = 2 THEN 1 ELSE 0>>,
         flipped          |-> character = 98,
         advance          |-> (10 + wide + IF bold /\ font = 2 THEN 1 ELSE 0) * characterSize,
         aabb             |-> [x      |-> 0,
                               y      |-> 0 - 20 * characterSize,
                               width  |-> 10 * characterSize,
                               height |-> 20 * characterSize],
         requireFauxBold  |-> bold /\ font = 1,
         requireFauxItalic|-> HasStyle(style, TextStyle_Italic)]

\* m_font->GetAtlas()->GetLayer(layerIndex)
FontGetAtlasLayer(font, layerIndex) == <<font, layerIndex>>

Maximum(a, b) == IF a >= b THEN a ELSE b

Minimum(a, b) == IF a <= b THEN a ELSE b

\* Rect::MakeZero
MakeZero == [x |-> 0, y |-> 0, width |-> 0, height |-> 0]

\* Rect::IsValid
RectIsValid(rect) == rect.width > 0 /\ rect.height > 0

\* Rect::Set(const Vector2&): a rectangle at the origin with these lengths.
RectSet(vec) == [x |-> 0, y |-> 0, width |-> vec[1], height |-> vec[2]]

\* Rect::ExtendTo(const Vector2&)
RectExtendTo(rect, vec) ==
    LET left   == Minimum(rect.x, vec[1])
        top    == Minimum(rect.y, vec[2])
        right  == Maximum(rect.x + rect.width, vec[1])
        bottom == Maximum(rect.y + rect.height, vec[2])
    IN  [x |-> left, y |-> top, width |-> right - left, height |-> bottom - top]

\* 0.208f, the lean of faux italics, in thousandths.
ItalicLean == 208

\* The glyph GenerateGlyphs builds from a font glyph at the draw position,
\* and the advance it moves the position by (lines 293-335).
MakeGlyph(fontGlyph, atlas, color, drawPos) ==
    LET placed == [fontGlyph.aabb EXCEPT !.x = @ + drawPos[1], !.y = @ + drawPos[2]]
        \* bounds.width *= 1.1f; bounds.height *= 1.1f; the centre moves by
        \* half of the height gained and bounds.y is moved back by it
        grownW == (placed.width * 11) \div 10
        grownH == (placed.height * 11) \div 10
        bounds == IF fontGlyph.requireFauxBold
                  THEN [x |-> placed.x,
                        y |-> placed.y - (grownH - placed.height) \div 2,
                        width |-> grownW, height |-> grownH]
                  ELSE placed
        advance == IF fontGlyph.requireFauxBold
                   THEN fontGlyph.advance + fontGlyph.advance \div 10
                   ELSE fontGlyph.advance
        italic == IF fontGlyph.requireFauxItalic THEN ItalicLean ELSE 0
        italicTop == (italic * bounds.y) \div 1000
        italicBottom == (italic * (bounds.y + bounds.height)) \div 1000
    IN  [glyph |-> [atlas     |-> atlas,
                    atlasRect |-> fontGlyph.atlasRect,
                    color     |-> color,
                    flipped   |-> fontGlyph.flipped,
                    corners   |-> << <<bounds.x - italicTop, bounds.y>>,
                                     <<bounds.x + bounds.width - italicTop, bounds.y>>,
                                     <<bounds.x - italicBottom, bounds.y + bounds.height>>,
                                     <<bounds.x + bounds.width - italicBottom,
                                       bounds.y + bounds.height>> >>],
         advance |-> advance]

\* One turn of the loop of GenerateGlyphs (lines 258-337) for `character`,
\* reading the font `font` (m_font wherever the font is not null).
GenerateGlyph(td, font, character) ==
    LET sizeInfo == FontGetSizeInfo(font, td.m_characterSize)
        kerned == IF td.m_previousCharacter # 0
                  THEN <<td.m_drawPos[1] + FontGetKerning(font, td.m_characterSize,
                                                          td.m_previousCharacter, character),
                         td.m_drawPos[2]>>
                  ELSE td.m_drawPos
        t1 == [td EXCEPT !.m_drawPos = kerned, !.m_previousCharacter = character]
        fontGlyph == FontGetGlyph(font, td.glyphCache[font], td.m_characterSize,
                                  td.m_style, character)
        made == MakeGlyph(fontGlyph, FontGetAtlasLayer(font, fontGlyph.layerIndex),
                          td.m_color, kerned)
        started == IF ~RectIsValid(td.m_workingBounds)
                   THEN RectSet(made.glyph.corners[1])
                   ELSE td.m_workingBounds
        extended == RectExtendTo(RectExtendTo(RectExtendTo(RectExtendTo(started,
                        made.glyph.corners[1]), made.glyph.corners[2]),
                        made.glyph.corners[3]), made.glyph.corners[4])
    IN  CASE character = 32 ->
               [t1 EXCEPT !.m_drawPos = <<kerned[1] + sizeInfo.spaceAdvance, kerned[2]>>]
          [] character = 10 ->
               [t1 EXCEPT !.m_drawPos = <<0, kerned[2] + sizeInfo.lineHeight>>]
          [] character = 9 ->
               [t1 EXCEPT !.m_drawPos = <<kerned[1] + sizeInfo.spaceAdvance * 4, kerned[2]>>]
          [] OTHER ->
               IF ~fontGlyph.valid THEN t1
               ELSE [t1 EXCEPT !.m_workingBounds = extended,
                               !.m_drawPos = <<kerned[1] + made.advance, kerned[2]>>,
                               !.m_glyphs = Append(@, made.glyph)]

RECURSIVE GenerateLoop(_, _, _)
GenerateLoop(td, font, characters) ==
    IF characters = <<>> THEN td
    ELSE GenerateLoop(GenerateGlyph(td, font, Head(characters)), font, Tail(characters))

\* GenerateGlyphs(text) reading the font `font`: nothing for an empty
\* text; otherwise the loop, then m_bounds from the working bounds (floor
\* and ceil of lengths that are integers here).
GenerateGlyphsWith(td, font, text) ==
    IF text = <<>> THEN td
    ELSE LET done == GenerateLoop(td, font, text)
         IN  [done EXCEPT !.m_bounds = done.m_workingBounds]

\* ClearGlyphs (lines 215-224)
ClearGlyphs(td) ==
    [td EXCEPT !.m_bounds = MakeZero,
               !.m_colorUpdated = TRUE,
               !.m_drawPos = <<0, td.m_characterSize>>,
               !.m_glyphs = <<>>,
               !.m_glyphUpdated = TRUE,
               !.m_previousCharacter = 0,
               !.m_workingBounds = MakeZero]

\* GenerateGlyphs(text) (lines 242-343): the outcomes of one call.  Past the
\* empty-text return the font is dereferenced without a test (line 255);
\* on a null font that is undefined: the process dies in the access, or
\* the call goes on with whatever it reads there, taken here to be the
\* data of some font.
GenerateGlyphs(td, text) ==
    IF text = <<>> THEN {td}
    ELSE IF td.m_font # Null THEN {GenerateGlyphsWith(td, td.m_font, text)}
    ELSE {[td EXCEPT !.terminated = TRUE]}
             \cup {GenerateGlyphsWith(td, font, text) : font \in Fonts}

\* UpdateGlyphs past its assertion (lines 409-410)
UpdateGlyphs(td) == GenerateGlyphs(ClearGlyphs(td), td.m_text)

\* The condition UpdateGlyphs asserts (line 407)
FontUsable(td) == td.m_font # Null /\ FontIsValid(td.m_font)

\* UpdateGlyphColor (lines 395-401)
UpdateGlyphColor(td) ==
    [td EXCEPT !.m_glyphs = [i \in DOMAIN @ |-> [@[i] EXCEPT !.color = td.m_color]],
               !.m_colorUpdated = TRUE]

\* ConnectFontSlots / DisconnectFontSlots (lines 226-240): Connect moves a
\* connected slot to the new signal.
ConnectFontSlots(td) == [td EXCEPT !.m_fontSlots = td.m_font]

DisconnectFontSlots(td) == [td EXCEPT !.m_fontSlots = Null]

\* SetFont (lines 129-142)
SetFont(td, font) ==
    IF td.m_font # font
    THEN LET t1 == [td EXCEPT !.m_font = font]
             t2 == IF font # Null THEN ConnectFontSlots(t1) ELSE DisconnectFontSlots(t1)
         IN  [t2 EXCEPT !.m_glyphUpdated = FALSE]
    ELSE td

\* SetCharacterSize (lines 115-120)
SetCharacterSize(td, characterSize) ==
    [td EXCEPT !.m_characterSize = characterSize, !.m_glyphUpdated = FALSE]

\* SetStyle (lines 144-149)
SetStyle(td, style) == [td EXCEPT !.m_style = style, !.m_glyphUpdated = FALSE]

\* SetText (lines 151-156)
SetText(td, str) == [td EXCEPT !.m_text = str, !.m_glyphUpdated = FALSE]

\* AppendText, were it to generate the appended glyphs without the
\* character that precedes them.
AppendTextForgetsPrevious(td, str) ==
    LET t1 == [td EXCEPT !.m_text = @ \o str, !.m_previousCharacter = 0]
    IN  IF t1.m_glyphUpdated THEN GenerateGlyphs(t1, str) ELSE {t1}

\* AppendText (lines 39-44): the outcomes of one call
AppendText(td, str) ==
    LET t1 == [td EXCEPT !.m_text = @ \o str]
    IN  IF t1.m_glyphUpdated THEN GenerateGlyphs(t1, str) ELSE {t1}

\* SimpleTextDrawer::Clear (lines 46-50)
DrawerClear(td) == ClearGlyphs([td EXCEPT !.m_text = <<>>])

\* The update GetGlyphCount and GetBounds make before they answer (lines
\* 54-55, 99-100): the outcomes
EnsureGlyphs(td) == IF ~td.m_glyphUpdated THEN UpdateGlyphs(td) ELSE {td}

\* The update GetGlyph makes before it answers (lines 89-92)
EnsureGlyphsAndColor(td) ==
    IF ~td.m_glyphUpdated THEN UpdateGlyphs(td)
    ELSE IF ~td.m_colorUpdated THEN {UpdateGlyphColor(td)}
    ELSE {td}

\* OnFontInvalidated (lines 364-377), connected to OnFontAtlasChanged and
\* OnFontGlyphCacheCleared
OnFontInvalidated(td, font) == [td EXCEPT !.m_glyphUpdated = FALSE]

\* OnFontRelease (lines 379-393)
OnFontRelease(td, font) == SetFont(td, Null)

\* What the default constructor leaves unset: m_drawPos, m_previousCharacter
\* and the two rectangles hold whatever the storage held.
Uninitialized ==
    {[m_drawPos |-> <<0, 0>>, m_previousCharacter |-> 0, rect |-> MakeZero],
     [m_drawPos |-> <<3, 7>>, m_previousCharacter |-> 97,
      rect |-> [x |-> 1, y |-> 1, width |-> 1, height |-> 1]]}

\* The default constructor (lines 11-19), on storage `garbage`
SimpleTextDrawer(garbage) ==
    SetFont([m_bounds            |-> garbage.rect,
             m_color             |-> White,
             m_drawPos           |-> garbage.m_drawPos,
             m_font              |-> Null,
             m_glyphs            |-> <<>>,
             m_text              |-> <<>>,
             m_style             |-> TextStyle_Regular,
             m_colorUpdated      |-> TRUE,
             m_glyphUpdated      |-> TRUE,
             m_characterSize     |-> DefaultCharacterSize,
             m_previousCharacter |-> garbage.m_previousCharacter,
             m_workingBounds     |-> garbage.rect,
             m_fontSlots         |-> Null,
             terminated          |-> FALSE,
             glyphCache          |-> [font \in Fonts |-> 0]],
            FontGetDefault)

(***************************************************************************)
(* SpecText: one drawer, constructed with the default font, under every    *)
(* call of its interface that changes or reads the glyphs, and the         *)
(* signals of its font.  The queue stays empty.                            *)
(***************************************************************************)

\* The longest text the drawer is given.
MaxText == 2

\* "a" and a tab before a space
SetTexts == {<<97>>, <<9, 32>>}

\* nothing, "b", and a line feed before '?'
AppendStrs == {<<>>, <<98>>, <<10, 63>>}

CharacterSizes == {12, DefaultCharacterSize}

Styles == {TextStyle_Regular, TextStyle_Bold}

\* The font that clears its glyph cache while the drawer lives.
ClearingFonts == {FontGetDefault}

InitText ==
    /\ layers = EmptyMap
    /\ op = [name |-> "Init"]
    /\ idle = [k \in AllLayerKeys |-> 0]
    /\ base = EmptyMap
    /\ calls = EmptyBag
    /\ \E garbage \in Uninitialized : drawer = SimpleTextDrawer(garbage)

\* A call on the drawer: one of its outcomes becomes the drawer, and `op`
\* records the call, with `generated` telling whether it went past the
\* empty-text return of GenerateGlyphs and `font` the font it then read.
\* A process that has died makes no call.
DrawerCall(outcomes, record) ==
    /\ ~drawer.terminated
    /\ drawer' \in outcomes
    /\ op' = record
    /\ UNCHANGED <<layers, idle, base, calls>>

TextSetText ==
    \E str \in SetTexts :
        DrawerCall({SetText(drawer, str)}, [name |-> "SetText", generated |-> FALSE])

TextAppendText ==
    \E str \in AppendStrs :
        /\ Len(drawer.m_text) + Len(str) <= MaxText
        /\ DrawerCall(AppendText(drawer, str),
                      [name |-> "AppendText", str |-> str, font |-> drawer.m_font,
                       generated |-> drawer.m_glyphUpdated /\ str # <<>>])

TextSetCharacterSize ==
    \E characterSize \in CharacterSizes :
        DrawerCall({SetCharacterSize(drawer, characterSize)},
                   [name |-> "SetCharacterSize", generated |-> FALSE])

TextSetStyle ==
    \E style \in Styles :
        DrawerCall({SetStyle(drawer, style)}, [name |-> "SetStyle", generated |-> FALSE])

TextSetFont ==
    \E font \in Fonts \cup {Null} :
        DrawerCall({SetFont(drawer, font)},
                   [name |-> "SetFont", font |-> font, generated |-> FALSE])

TextClear ==
    DrawerCall({DrawerClear(drawer)}, [name |-> "DrawerClear", generated |-> FALSE])

\* A read accessor: when the glyphs are out of date and the assertion of
\* UpdateGlyphs fails, the call is rejected and changes nothing.
ReadCall(name, outcomes, Result(_)) ==
    IF ~drawer.m_glyphUpdated /\ ~NazaraAssert(FontUsable(drawer))
    THEN DrawerCall({drawer}, [name |-> name, rejected |-> TRUE, generated |-> FALSE])
    ELSE \E after \in outcomes :
             DrawerCall({after},
                        [name |-> name, rejected |-> FALSE, result |-> Result(after),
                         font |-> drawer.m_font,
                         generated |-> ~drawer.m_glyphUpdated /\ drawer.m_text # <<>>])

TextGetGlyphCount ==
    ReadCall("GetGlyphCount", EnsureGlyphs(drawer), LAMBDA td : Len(td.m_glyphs))

TextGetBounds ==
    ReadCall("GetBounds", EnsureGlyphs(drawer), LAMBDA td : td.m_bounds)

\* GetGlyph(index) for every index the caller may pass, all at once
TextGetGlyph ==
    ReadCall("GetGlyph", EnsureGlyphsAndColor(drawer), LAMBDA td : td.m_glyphs)

\* Font clears its glyph cache and emits OnFontGlyphCacheCleared; a
\* connected drawer runs OnFontInvalidated.
TextFontInvalidated ==
    \E font \in ClearingFonts :
        LET cleared == [drawer EXCEPT !.glyphCache[font] = 1 - @]
        IN  DrawerCall({IF drawer.m_fontSlots = font
                        THEN OnFontInvalidated(cleared, font) ELSE cleared},
                       [name |-> "OnFontInvalidated", font |-> font, generated |-> FALSE])

\* Font emits OnFontRelease; only a connected drawer hears it.
TextFontRelease ==
    /\ drawer.m_fontSlots # Null
    /\ DrawerCall({OnFontRelease(drawer, drawer.m_fontSlots)},
                  [name |-> "OnFontRelease", font |-> drawer.m_fontSlots,
                   generated |-> FALSE])

NextText ==
    \/ TextSetText
    \/ TextAppendText
    \/ TextSetCharacterSize
    \/ TextSetStyle
    \/ TextSetFont
    \/ TextClear
    \/ TextGetGlyphCount
    \/ TextGetBounds
    \/ TextGetGlyph
    \/ TextFontInvalidated
    \/ TextFontRelease

SpecText == InitText /\ [][NextText]_vars

\* The drawer after UpdateGlyphs on a drawer with a font.
FullRegeneration(td) == GenerateGlyphsWith(ClearGlyphs(td), td.m_font, td.m_text)

\* The cached glyphs and bounds are those of a full regeneration.
UpToDate(td) ==
    LET full == FullRegeneration(td)
    IN  /\ td.m_bounds = full.m_bounds
        /\ td.m_glyphs = full.m_glyphs

ReadAccessors == {"GetGlyphCount", "GetBounds", "GetGlyph"}

\* What a step of a drawer with a font must do, whatever SetFont does.
RegeneratedOnRead ==
    /\ (op'.name \in ReadAccessors /\ ~op'.rejected) =>
           /\ drawer'.m_glyphUpdated
           /\ op'.name = "GetGlyphCount" => op'.result = Len(FullRegeneration(drawer).m_glyphs)
           /\ op'.name = "GetBounds" => op'.result = FullRegeneration(drawer).m_bounds
           /\ op'.name = "GetGlyph" => op'.result = FullRegeneration(drawer).m_glyphs
    /\ op'.name \in {"SetText", "SetCharacterSize", "SetStyle"} => ~drawer'.m_glyphUpdated
    /\ (op'.name = "OnFontInvalidated" /\ op'.font = drawer.m_font) => ~drawer'.m_glyphUpdated
    /\ (op'.name = "AppendText" /\ drawer.m_glyphUpdated) =>
           /\ drawer'.m_glyphUpdated
           /\ LET whole == FullRegeneration(SetText(drawer, drawer.m_text \o op'.str))
              IN  /\ drawer'.m_bounds = whole.m_bounds
                  /\ drawer'.m_glyphs = whole.m_glyphs
    /\ drawer'.m_glyphUpdated => UpToDate(drawer')

HasFont(td) == ~td.terminated /\ FontUsable(td)

\* C32, as stated: with a valid font, the read accessors return the glyphs
\* of a full regeneration from the current text, size, style and font; the
\* dirty flag is set by every setter (SetFont among them) and by font
\* invalidation and cleared by the read accessors; AppendText on up-to-date
\* glyphs gives what SetText of the concatenated text gives.
C32_EverySetterSetsTheFlag ==
    [][HasFont(drawer') =>
           /\ RegeneratedOnRead
           /\ op'.name = "SetFont" => ~drawer'.m_glyphUpdated]_vars

\* C32, amended: as above, but SetFont sets the flag only when it is given a
\* font other than the drawer's; SetFont of the drawer's own font changes
\* nothing, the flag included.
C32_ReadsGiveFullRegeneration ==
    [][HasFont(drawer') =>
           /\ RegeneratedOnRead
           /\ op'.name = "SetFont" =>
                  IF op'.font # drawer.m_font THEN ~drawer'.m_glyphUpdated
                  ELSE drawer' = drawer]_vars

\* C32's case: on font 1 in bold, after its glyph cache was cleared, 'b' was
\* appended to the up-to-date glyph of "a": the second glyph was generated
\* by AppendText alone, kerned against the first.
C32_Witness ==
    /\ op.name = "AppendText"
    /\ op.generated
    /\ op.str = <<98>>
    /\ drawer.m_text = <<97, 98>>
    /\ drawer.m_font = 1
    /\ drawer.m_style = TextStyle_Bold
    /\ drawer.glyphCache[1] = 1
    /\ drawer.m_glyphUpdated
    /\ Len(drawer.m_glyphs) = 2

\* C33: glyph generation is reached only with a non-null font: no call
\* goes past the empty-text return of GenerateGlyphs while m_font is null.
C33_GenerationNeedsFont ==
    (op.name # "Init" /\ op.generated) => op.font # Null

====
